---- MODULE Spec2Model ----
(***************************************************************************)
(* Tool-orchestration core of Lynexus: the MCP server manager              *)
(* (src/mcp_utils.py), the tool registry and the execution loop            *)
(* (src/aiclass.py) and the UI handlers that start and stop turns          *)
(* (src/ui/chat_box.py).                                                   *)
(*                                                                         *)
(* The module holds several specifications over one set of variables:      *)
(*   SpecCall   callers using send_mcp_req / call_tool on a started        *)
(*              provider, the provider printing arbitrary lines;           *)
(*   FairCall   SpecCall with the fairness the threads' scheduling gives;  *)
(*   SpecLoad   load_mcp_conf: start_ser and init_ser over the providers;  *)
(*   SpecMerge  load_mult_mcp_mod folding the tool files into one dict.    *)
(*   SpecTurn   one turn of each execution loop of AI, with exec_func, the  *)
(*              model's replies and set_stop_flag at any moment;            *)
(*   SpecUI     the chat window: send, stop and reset, its pool running     *)
(*              streaming turns on two worker threads;                      *)
(*   SpecParse  the text of a directive and the tokens the loops take      *)
(*              from it;                                                   *)
(*   SpecHistory  a turn started on any history a caller can hand over;    *)
(*   SpecStop   loads and reloads of the tool descriptor and stop() on the *)
(*              managers, with the processes and reader threads;           *)
(*   FairStop   SpecStop with the threads scheduled.                       *)
(* A specification leaves the variables of the other parts unchanged.      *)
(***************************************************************************)
EXTENDS Integers, Sequences, FiniteSets, TLC

(***************************************************************************)
(* Bounds of the model.                                                    *)
(***************************************************************************)
\* lines one provider process prints during a run
MaxLines == 2
\* send_mcp_req / call_tool invocations one caller makes during a run
MaxCalls == 2
\* tool files (mcp_paths) handed to load_mult_mcp_mod
MaxPaths == 3
\* update_config: longest list of tool files a configuration names
MaxConfPaths == 2
\* arguments of a directive
MaxArgs == 2
\* entries of the history a turn is started with
MaxHist == 2
\* largest AI.max_iterations and AI.max_execution_iterations
MaxIter == 2
MaxExec == 2
\* messages the user sends in the chat window
MaxTurns == 2
\* lines the provider may still print while turns run
TurnLines == 1
\* loads of the tool descriptor (AI construction and reloads)
MaxLoads == 2
\* calls of stop() on one manager
MaxStops == 2

(***************************************************************************)
(* Program constants.  Time is counted in seconds: the default timeout of  *)
(* send_mcp_req is 3 seconds.  The polling loop is followed one second of  *)
(* empty queue at a time (ten consecutive queue.get(timeout=0.1) that      *)
(* raise queue.Empty); a get that finds a line takes no time.              *)
(***************************************************************************)
Timeout == 3
InitId == 1
ToolsId == 2
CallId == 3

\* the request has no "id" key (a notification) / the response has none
NoId == 0

\* configured providers, in the order of the mcpServers dict
Providers == {"a", "a_b"}
ProviderOrder == <<"a", "a_b">>
\* names are sequences of characters, so that f"mcp_{ser}_{tool}" is a
\* concatenation
Chars(p) == IF p = "a" THEN <<"a">> ELSE <<"a", "_", "b">>
\* threads that use the manager: the loader and two worker threads
Callers == {"loader", "w1", "w2"}
\* tool names a provider may report (NoName: a descriptor without a name)
T_c == <<"c">>
T_b_c == <<"b", "_", "c">>
NoName == <<>>
ToolNames == {T_c, T_b_c, NoName}
\* tool lists a tools/list result may carry
ToolLists == {<<>>, <<T_b_c>>, <<T_c, NoName>>}

(***************************************************************************)
(* Requests written to a provider's stdin.                                 *)
(***************************************************************************)
init_req == [id |-> InitId, method |-> "initialize", name |-> NoName]
init_notif == [id |-> NoId, method |-> "notifications/initialized", name |-> NoName]
tools_req == [id |-> ToolsId, method |-> "tools/list", name |-> NoName]
call_req(tool_name) == [id |-> CallId, method |-> "tools/call", name |-> tool_name]
NoReq == [id |-> NoId, method |-> "", name |-> NoName]

(***************************************************************************)
(* Lines on a provider's stdout, by what send_mcp_req can tell apart:      *)
(*   k = "text"  does not start with '{' (log output, blank line)          *)
(*   k = "bad"   starts with '{' but json.loads raises                     *)
(*   k = "obj"   a JSON object; id = NoId when it has no "id" key;         *)
(*               res = "absent" when it has no "result" key, "obj" when    *)
(*               the result is an object (tools = its "tools" list),       *)
(*               "scalar" when the result is not an object.                *)
(* None is the value send_mcp_req returns for "no response".               *)
(***************************************************************************)
None == [k |-> "None", id |-> NoId, res |-> "absent", tools |-> <<>>]
TextLine == [k |-> "text", id |-> NoId, res |-> "absent", tools |-> <<>>]
BadLine == [k |-> "bad", id |-> NoId, res |-> "absent", tools |-> <<>>]
ObjLines ==
    {[k |-> "obj", id |-> i, res |-> "absent", tools |-> <<>>] : i \in {NoId, InitId, ToolsId, CallId}}
    \cup {[k |-> "obj", id |-> i, res |-> "scalar", tools |-> <<>>] : i \in {ToolsId, CallId}}
    \cup {[k |-> "obj", id |-> i, res |-> "obj", tools |-> <<>>] : i \in {InitId, CallId}}
    \cup {[k |-> "obj", id |-> ToolsId, res |-> "obj", tools |-> tl] : tl \in ToolLists}
Lines == {TextLine, BadLine} \cup ObjLines
\* a line on the queue: ans = 0 for a line whose text is left open, ans = n
\* for the provider's response to the n-th request written to its stdin
Unread == [ans |-> 0]
Response(n) == [ans |-> n]
\* the response of a provider to request r: a result under the id of r
ResponseLine(r) == [k |-> "obj", id |-> r.id, res |-> "obj", tools |-> <<>>]
\* the lines that matter to a caller of send_mcp_req after the handshake
CallLines == {l \in Lines : l.res # "scalar" /\ l.tools = <<>>}
\* the lines that matter during the handshake
HandshakeLines == {l \in Lines : l.id \in {InitId, ToolsId} \/ l.k = "text"}

VARIABLES
    \* MCPServerManager: ser_name in self.processes
    processes,
    \* the child process is running (its pipes are open)
    alive,
    \* MCPServerManager.output_queues[ser_name], filled by read_loop: the
    \* lines waiting to be read.  Nothing looks at a line before get()
    \* returns it, so the text of a waiting line is left open (Unread) and
    \* is fixed by the get() that returns it
    output_queues,
    \* requests written to the process's stdin, in order
    stdin,
    \* lines the process may still print
    budget,
    \* MCPServerManager.tools[ser_name]; <<"unset">> while the key is absent
    tools,
    \* per caller: where it is inside send_mcp_req ("idle", "poll")
    mpc,
    \* per caller: the operation in progress ("", "send", "call_tool")
    op,
    \* per caller: the provider and the request of the current/last call
    ser, req,
    \* per caller: seconds since start_time of the current call
    elapsed,
    \* per caller: lines popped and dropped during the current/last call
    dropped,
    \* per caller: value the last send_mcp_req returned
    resp,
    \* per caller: value the last call_tool returned ("", "result", "error")
    call_ret,
    \* per caller: calls made so far
    ncalls,
    \* requests on stdin the process has dealt with, in order
    answered

VARIABLES
    \* load_mcp_conf: where the loading thread is
    \*   "idle"  not called; "start" at the head of the for loop;
    \*   "init" .. "list_wait" inside init_ser; "done" returned funcs;
    \*   "aborted" left through the except clause and returned {}
    lpc,
    \* load_mcp_conf: position of the for loop in manager.servers
    li,
    \* per provider: what Popen did in start_ser ("pending", "ok", "failed")
    launched,
    \* per provider: what init_ser returned ("pending", "ok", "failed")
    inited,
    \* load_mcp_conf: the dict funcs, as a set of bindings
    funcs

VARIABLES
    \* load_mult_mcp_mod: per path, what load_mcp_mod returns for it:
    \* ok = a module came back, names = the keys of its funcs dict
    path_funcs,
    \* load_mult_mcp_mod: position of the for loop in mcp_paths
    \* (0: not called, Len + 1: returned)
    mi,
    \* load_mult_mcp_mod: all_funcs, as a set of bindings, and all_mods
    all_funcs, all_mods,
    \* names for which the "exists in multiple MCP files" warning was printed
    warned

VARIABLES
    \* AI.mcp_paths, the list of tool files of the AI instance
    mcp_paths,
    \* the tool files os.path.exists finds
    on_disk

VARIABLES
    \* per thread: the frame of the loop it runs
    \*   pc       "idle" no turn, "queued" submitted to the pool, "top" at
    \*            the head of the while loop, "await" inside create(),
    \*            "chunks" consuming the stream, "exec" inside exec_func
    \*            after the lookup, "in_tool" inside the callable, "done"
    \*            returned, "crashed" left by an exception nobody caught
    \*   variant  "hist" process_user_input_with_history, "stream"
    \*            process_user_input_stream, "plain"
    \*            _process_user_inp_non_stream
    \*   iteration, history (current_history / history), full_response,
    \*   summary_requested: the locals of the same names
    \*   cur      the completion being handled (get_reply / current_response)
    \*   cut      the chunk loop was left through its break
    \*   nreq     calls of client.chat.completions.create in this turn
    \*   result   what the turn returned: "stopped" the interruption
    \*            result, "final" the answer, "max_steps" full_response
    \*            followed by the maximum-steps note, "note" that note
    \*            alone, "exhausted" the streaming loop ran out of
    \*            iterations and ended with nothing more,
    \*            "error" the error text
    turn,
    \* AI._stop_flag
    stop_flag,
    \* AI.execution_status["status"]
    execution_status,
    \* AI.conv_his
    conv_his,
    \* AI.funcs, as a set of bindings
    ai_funcs,
    \* AI.max_iterations, AI.max_execution_iterations
    max_iterations, max_execution_iterations,
    \* ModernChatBox.current_state ("IDLE", "STREAMING")
    current_state,
    \* where the UI thread is inside _stop_processing ("idle", "stopping")
    ui_pc,
    \* number of user messages in ModernChatBox.chat_records
    chat_records

VARIABLES
    \* one directive from the tool name and the arguments it is written
    \* for to the func_name and args the loop extracts from its text
    directive

VARIABLES
    \* the provider sessions of every MCPServerManager created so far:
    \* sessions[<<g, p>>] is what manager g holds for provider p in its
    \* dictionaries processes, stop_events and read_threads
    sessions,
    \* number of MCPServerManager objects created by load_mcp_mod
    managers,
    \* the manager the closures in AI.funcs call (0: none)
    active,
    \* the call of MCPServerManager.stop in progress
    stopper,
    \* stops[g]: number of calls of stop() on manager g that have returned
    stops

lifeVars == <<sessions, managers, active, stopper, stops>>
confVars == <<mcp_paths, on_disk>>

mcpVars == <<processes, alive, output_queues, stdin, budget, tools,
             mpc, op, ser, req, elapsed, dropped, resp, call_ret, ncalls, answered>>
loadVars == <<lpc, li, launched, inited, funcs>>
mergeVars == <<path_funcs, mi, all_funcs, all_mods, warned>>

aiVars == <<stop_flag, execution_status, conv_his, ai_funcs, max_iterations,
            max_execution_iterations>>
uiVars == <<current_state, ui_pc, chat_records>>
turnVars == <<turn, aiVars, uiVars>>
parseVars == <<directive>>

vars == <<mcpVars, loadVars, mergeVars, lifeVars, confVars, parseVars, turnVars>>

(***************************************************************************)
(* read_loop and the provider process.                                     *)
(***************************************************************************)
\* the process prints a line; read_loop strips it and puts it on the queue
read_loop(p) ==
    /\ processes[p] /\ alive[p]
    /\ budget[p] > 0
    /\ budget' = [budget EXCEPT ![p] = @ - 1]
    /\ output_queues' = [output_queues EXCEPT ![p] = Append(@, Unread)]
    /\ UNCHANGED <<processes, alive, stdin, tools, mpc, op, ser, req, elapsed,
                   dropped, resp, call_ret, ncalls, answered>>

\* the process deals with the next request on its stdin: it prints its
\* response to a request that has an id (read_loop puts the line on the
\* queue) and nothing for a notification
Respond(p) ==
    /\ processes[p] /\ alive[p]
    /\ answered[p] < Len(stdin[p])
    /\ LET n == answered[p] + 1 IN
       /\ answered' = [answered EXCEPT ![p] = n]
       /\ IF stdin[p][n].id = NoId
            THEN UNCHANGED <<output_queues, budget>>
            ELSE /\ budget[p] > 0
                 /\ budget' = [budget EXCEPT ![p] = @ - 1]
                 /\ output_queues' = [output_queues EXCEPT ![p] = Append(@, Response(n))]
    /\ UNCHANGED <<processes, alive, stdin, tools, mpc, op, ser, req, elapsed,
                   dropped, resp, call_ret, ncalls>>

\* the process exits: readline() returns '' from then on, nothing is queued
ProcessExit(p) ==
    /\ processes[p] /\ alive[p]
    /\ alive' = [alive EXCEPT ![p] = FALSE]
    /\ UNCHANGED <<processes, output_queues, stdin, budget, tools, mpc, op, ser,
                   req, elapsed, dropped, resp, call_ret, ncalls, answered>>

(***************************************************************************)
(* send_mcp_req.                                                           *)
(***************************************************************************)
\* a correlation check that only looks for the presence of an id
IdMatches_anyid(line, r) == line.id # NoId

\* 'id' in resp and resp['id'] == req['id'], for a line that parsed
IdMatches(line, r) == line.id # NoId /\ line.id = r.id

\* line and line.startswith('{') and json.loads succeeds and the id matches
IsMatch(line, r) == line.k = "obj" /\ IdMatches(line, r)

\* a check that only looks whether a response came back
HasResult_truthy(r) == r.k = "obj"

\* resp and 'result' in resp
HasResult(r) == r.k = "obj" /\ r.res # "absent"

\* what call_tool makes of the response of send_mcp_req
call_tool_result(r) == IF HasResult(r) THEN "result" ELSE "error"

\* a test that takes no request for a notification
IsNotification_never(r) == FALSE

\* 'id' not in req
IsNotification(r) == r.id = NoId

\* send_mcp_req returns value r to caller c
Return(c, r) ==
    /\ mpc' = [mpc EXCEPT ![c] = "idle"]
    /\ resp' = [resp EXCEPT ![c] = r]
    /\ call_ret' = [call_ret EXCEPT ![c] =
                      IF op[c] = "call_tool" THEN call_tool_result(r) ELSE @]

\* entry of send_mcp_req up to the first poll: the running check, the write
\* to stdin (which raises when the process is gone), the notification exit
\* (the caller's count of calls, ncalls, is left to the caller)
send_mcp_req(c, p, r, o) ==
    /\ mpc[c] = "idle"
    /\ op' = [op EXCEPT ![c] = o]
    /\ ser' = [ser EXCEPT ![c] = p]
    /\ req' = [req EXCEPT ![c] = r]
    /\ dropped' = [dropped EXCEPT ![c] = 0]
    /\ elapsed' = [elapsed EXCEPT ![c] = 0]
    /\ IF ~processes[p] \/ ~alive[p]
         THEN /\ resp' = [resp EXCEPT ![c] = None]
              /\ call_ret' = [call_ret EXCEPT ![c] =
                                IF o = "call_tool" THEN call_tool_result(None) ELSE ""]
              /\ UNCHANGED <<mpc, stdin>>
         ELSE /\ stdin' = [stdin EXCEPT ![p] = Append(@, r)]
              /\ resp' = [resp EXCEPT ![c] = None]
              /\ call_ret' = [call_ret EXCEPT ![c] = ""]
              /\ IF IsNotification(r)
                   THEN UNCHANGED mpc
                   ELSE mpc' = [mpc EXCEPT ![c] = "poll"]
    /\ UNCHANGED <<processes, alive, output_queues, budget, tools, answered>>

\* the texts the line tok on the queue of provider p can have: any of L
\* when its text is left open
TextOf(p, tok, L) ==
    IF tok.ans = 0 THEN L ELSE {ResponseLine(stdin[p][tok.ans])}

\* one turn of the polling loop that gets a line from the queue; the line
\* is one of those in L
PollLine(c, L) ==
    /\ mpc[c] = "poll"
    /\ elapsed[c] < Timeout
    /\ output_queues[ser[c]] # <<>>
    /\ \E line \in TextOf(ser[c], Head(output_queues[ser[c]]), L) :
         /\ output_queues' = [output_queues EXCEPT ![ser[c]] = Tail(@)]
         /\ IF IsMatch(line, req[c])
              THEN /\ Return(c, line)
                   /\ UNCHANGED dropped
              ELSE /\ dropped' = [dropped EXCEPT ![c] = @ + 1]
                   /\ UNCHANGED <<mpc, resp, call_ret>>
    /\ UNCHANGED <<processes, alive, stdin, budget, tools, op, ser, req, elapsed, ncalls, answered>>

\* a polling loop that restarts its clock on every empty poll
PollEmpty_noclock(c) ==
    /\ mpc[c] = "poll"
    /\ elapsed[c] < Timeout
    /\ output_queues[ser[c]] = <<>>
    /\ elapsed' = [elapsed EXCEPT ![c] = 0]
    /\ UNCHANGED <<processes, alive, output_queues, stdin, budget, tools, mpc, op,
                   ser, req, dropped, resp, call_ret, ncalls, answered>>

\* a second of turns of the polling loop in which get() raises queue.Empty
PollEmpty(c) ==
    /\ mpc[c] = "poll"
    /\ elapsed[c] < Timeout
    /\ output_queues[ser[c]] = <<>>
    /\ elapsed' = [elapsed EXCEPT ![c] = @ + 1]
    /\ UNCHANGED <<processes, alive, output_queues, stdin, budget, tools, mpc, op,
                   ser, req, dropped, resp, call_ret, ncalls, answered>>

\* the while condition fails: "request timed out", return None
PollTimeout(c) ==
    /\ mpc[c] = "poll"
    /\ elapsed[c] >= Timeout
    /\ Return(c, None)
    /\ UNCHANGED <<processes, alive, output_queues, stdin, budget, tools, op, ser,
                   req, elapsed, dropped, ncalls, answered>>

\* call_tool(ser_name, tool_name, args)
call_tool(c, p, tool_name) == send_mcp_req(c, p, call_req(tool_name), "call_tool")

(***************************************************************************)
(* start_ser, init_ser and load_mcp_conf.  The loading thread is the       *)
(* caller "loader" of send_mcp_req.                                        *)
(***************************************************************************)
\* a dict as a set of bindings: d[e.name] = e
DictPut(d, e) == {x \in d : x.name # e.name} \cup {e}

\* f"mcp_{ser_name}_{tool_name}"
func_name(p, t) == <<"m", "c", "p", "_">> \o Chars(p) \o <<"_">> \o t

\* the binding create_tool_func(manager, ser_name, tool_name, desc) makes
create_tool_func(p, t) == [name |-> func_name(p, t), ser |-> p, tool |-> t]

\* for tool in manager.tools.get(ser_name, []): if tool_name: funcs[...] = ...
RECURSIVE AddTools(_, _, _)
AddTools(d, p, tl) ==
    IF tl = <<>> THEN d
    ELSE AddTools(IF Head(tl) # NoName THEN DictPut(d, create_tool_func(p, Head(tl))) ELSE d,
                  p, Tail(tl))

\* start_ser whose bookkeeping is done before Popen has succeeded
start_ser_early(p, ok) ==
    /\ processes' = [processes EXCEPT ![p] = TRUE]
    /\ alive' = [alive EXCEPT ![p] = ok]
    /\ budget' = [budget EXCEPT ![p] = IF ok THEN MaxLines ELSE 0]
    /\ UNCHANGED <<output_queues, stdin, tools, mpc, op, ser, req, elapsed,
                   dropped, resp, call_ret, ncalls, answered>>

\* start_ser(ser_name): Popen succeeds (ok) and the process, its queue, its
\* stop event and its reader are recorded, or Popen raises and start_ser
\* returns None with nothing recorded
start_ser(p, ok) ==
    /\ processes' = [processes EXCEPT ![p] = ok]
    /\ alive' = [alive EXCEPT ![p] = ok]
    /\ budget' = [budget EXCEPT ![p] = IF ok THEN MaxLines ELSE 0]
    /\ UNCHANGED <<output_queues, stdin, tools, mpc, op, ser, req, elapsed,
                   dropped, resp, call_ret, ncalls, answered>>

\* the provider the for loop of load_mcp_conf is at
CurSer == ProviderOrder[li]

\* for ser_name in manager.servers.keys(): if manager.start_ser(ser_name):
LoadStart ==
    /\ lpc = "start" /\ li <= Len(ProviderOrder)
    /\ \E ok \in BOOLEAN :
         /\ start_ser(CurSer, ok)
         /\ launched' = [launched EXCEPT ![CurSer] = IF ok THEN "ok" ELSE "failed"]
         /\ IF ok THEN lpc' = "init" /\ UNCHANGED li
                  ELSE li' = li + 1 /\ UNCHANGED lpc
    /\ UNCHANGED <<inited, funcs>>

\* init_ser: resp = self.send_mcp_req(ser_name, init_req)
LoadInit ==
    /\ lpc = "init"
    /\ send_mcp_req("loader", CurSer, init_req, "send")
    /\ lpc' = "init_wait"
    /\ UNCHANGED <<ncalls, li, launched, inited, funcs>>

\* init_ser: if resp and 'result' in resp: ... else: return False
LoadAfterInit ==
    /\ lpc = "init_wait" /\ mpc["loader"] = "idle"
    /\ IF HasResult(resp["loader"])
         THEN /\ lpc' = "notif"
              /\ UNCHANGED <<li, inited>>
         ELSE /\ inited' = [inited EXCEPT ![CurSer] = "failed"]
              /\ li' = li + 1
              /\ lpc' = "start"
    /\ UNCHANGED <<mcpVars, launched, funcs>>

\* init_ser: self.send_mcp_req(ser_name, init_notif)
LoadNotif ==
    /\ lpc = "notif"
    /\ send_mcp_req("loader", CurSer, init_notif, "send")
    /\ lpc' = "list"
    /\ UNCHANGED <<ncalls, li, launched, inited, funcs>>

\* init_ser: tools_resp = self.send_mcp_req(ser_name, tools_req)
LoadList ==
    /\ lpc = "list"
    /\ send_mcp_req("loader", CurSer, tools_req, "send")
    /\ lpc' = "list_wait"
    /\ UNCHANGED <<ncalls, li, launched, inited, funcs>>

\* init_ser: if tools_resp and 'result' in tools_resp: store the tools and
\* return True (tools_resp['result'].get raises when the result is not an
\* object: the except clause of load_mcp_conf then returns {}), else return
\* False; load_mcp_conf: bind the tools of a provider whose init_ser
\* returned True
LoadAfterList ==
    /\ lpc = "list_wait" /\ mpc["loader"] = "idle"
    /\ LET r == resp["loader"] IN
         IF HasResult(r)
           THEN IF r.res = "scalar"
                  THEN /\ lpc' = "aborted"
                       /\ funcs' = {}
                       /\ UNCHANGED <<li, inited, tools>>
                  ELSE /\ tools' = [tools EXCEPT ![CurSer] = r.tools]
                       /\ inited' = [inited EXCEPT ![CurSer] = "ok"]
                       /\ funcs' = AddTools(funcs, CurSer, r.tools)
                       /\ li' = li + 1
                       /\ lpc' = "start"
           ELSE /\ inited' = [inited EXCEPT ![CurSer] = "failed"]
                /\ li' = li + 1
                /\ lpc' = "start"
                /\ UNCHANGED <<funcs, tools>>
    /\ UNCHANGED <<processes, alive, output_queues, stdin, budget,
                   mpc, op, ser, req, elapsed, dropped, resp, call_ret, ncalls, answered, launched>>

\* the for loop is exhausted: return funcs
LoadReturn ==
    /\ lpc = "start" /\ li > Len(ProviderOrder)
    /\ lpc' = "done"
    /\ UNCHANGED <<mcpVars, li, launched, inited, funcs>>

(***************************************************************************)
(* load_mult_mcp_mod: the tool files are loaded in order and their funcs   *)
(* dicts are folded into all_funcs.                                        *)
(***************************************************************************)
\* names tool files define: two plain functions and one provider tool
LocalNames == {<<"l", "s">>, <<"c", "a", "t">>}
MergeNames == LocalNames \cup {func_name("a", T_c)}

\* what load_mcp_mod can return for a file: (None, {}) or (module, funcs)
PathResults ==
    {[ok |-> FALSE, names |-> {}]} \cup {[ok |-> TRUE, names |-> ns] : ns \in SUBSET MergeNames}

\* an update that keeps the binding a name already has
DictUpdate_keepfirst(d, es) == d \cup {e \in es : \A x \in d : x.name # e.name}

\* for func_name, func in funcs.items(): all_funcs[func_name] = func
DictUpdate(d, es) == {x \in d : \A e \in es : e.name # x.name} \cup es

\* one turn of the for loop: load_mcp_mod(path), then the fold
MergePath ==
    /\ mi >= 1 /\ mi <= MaxPaths
    /\ LET r == path_funcs[mi]
           es == {[name |-> n, src |-> mi] : n \in r.names}
       IN /\ all_mods' = IF r.ok THEN Append(all_mods, mi) ELSE all_mods
          /\ warned' = warned \cup {n \in r.names : \E x \in all_funcs : x.name = n}
          /\ all_funcs' = DictUpdate(all_funcs, es)
    /\ mi' = mi + 1
    /\ UNCHANGED <<path_funcs, mcpVars, loadVars, lifeVars, confVars, parseVars, turnVars>>

MergeInitState(m0) ==
    /\ path_funcs \in [1..MaxPaths -> PathResults]
    /\ mi = m0
    /\ all_funcs = {}
    /\ all_mods = <<>>
    /\ warned = {}

MergeIdle ==
    /\ path_funcs = [i \in 1..MaxPaths |-> [ok |-> FALSE, names |-> {}]]
    /\ mi = 0
    /\ all_funcs = {}
    /\ all_mods = <<>>
    /\ warned = {}

(***************************************************************************)
(* The life cycle of provider sessions: MCPServerManager.start_ser creates *)
(* a child process, a stop event and a reader thread; stop() ends them;    *)
(* AI.load_mcp_tools creates a new manager at every load.                  *)
(***************************************************************************)
\* the providers of the descriptor, in the order of manager.servers
StopOrder == <<"a">>
Sessions == (1..MaxLoads) \X {StopOrder[i] : i \in DOMAIN StopOrder}

\* ser_name is not a key of manager.processes
NoSession ==
    [process |-> "none", shell |-> FALSE, child |-> "none", terminated |-> FALSE,
     stop_event |-> FALSE, read_thread |-> "none"]

\* subprocess.Popen(..., shell=use_shell) succeeded, the stop event and the
\* reader thread are created.  With use_shell the process is the shell
\* and the provider is a child of the shell that inherits its pipes.
Popen(use_shell) ==
    [process |-> "running", shell |-> use_shell,
     child |-> IF use_shell THEN "running" ELSE "none",
     terminated |-> FALSE, stop_event |-> FALSE, read_thread |-> "head"]

\* some process still holds the write end of the stdout pipe
PipeOpen(s) == s.process = "running" \/ s.child = "running"

\* an Event.set that flips the flag
set_toggle(e) == ~e

\* threading.Event.set()
set(e) == TRUE

\* no call of stop() is in progress
NoStop == [g |-> 0, i |-> 0, pc |-> "idle"]

LifeIdle ==
    /\ sessions = [k \in Sessions |-> NoSession]
    /\ managers = 0
    /\ active = 0
    /\ stopper = NoStop
    /\ stops = [g \in 1..MaxLoads |-> 0]

\* AI.load_mcp_tools with a descriptor in mcp_paths, from AI.__init__ or
\* from update_config when the set of paths changed: load_mcp_mod creates a
\* new MCPServerManager, load_mcp_conf starts every provider of the
\* descriptor (a launch may fail), and self.funcs is replaced by the
\* closures over the new manager.  Nothing is done to the manager of the
\* previous load.
load_mcp_tools ==
    /\ managers < MaxLoads
    /\ LET g == managers + 1 IN
       /\ managers' = g
       /\ active' = g
       /\ \E started \in [{StopOrder[i] : i \in DOMAIN StopOrder} ->
                             {NoSession} \cup {Popen(sh) : sh \in BOOLEAN}] :
            sessions' = [k \in Sessions |->
                           IF k[1] = g THEN started[k[2]] ELSE sessions[k]]
    /\ UNCHANGED <<stopper, stops>>

\* the child process exits, by itself or on the terminate signal
LifeProcessExit(k) ==
    /\ sessions[k].process = "running"
    /\ sessions' = [sessions EXCEPT ![k].process = "exited"]
    /\ UNCHANGED <<managers, active, stopper, stops>>

\* the provider started by the shell exits by itself
LifeChildExit(k) ==
    /\ sessions[k].child = "running"
    /\ sessions' = [sessions EXCEPT ![k].child = "exited"]
    /\ UNCHANGED <<managers, active, stopper, stops>>

\* read_loop: while not stop_flag.is_set()
ReaderHead(k) ==
    /\ sessions[k].read_thread = "head"
    /\ sessions' = [sessions EXCEPT ![k].read_thread =
                       IF sessions[k].stop_event THEN "done" ELSE "readline"]
    /\ UNCHANGED <<managers, active, stopper, stops>>

\* read_loop: proc.stdout.readline() returns a line the provider printed,
\* or '' at the end of the file once no process holds the pipe (then
\* time.sleep(0.1)); it blocks while the pipe is open and nothing is
\* printed
ReaderReadline(k) ==
    /\ sessions[k].read_thread = "readline"
    /\ sessions' = [sessions EXCEPT ![k].read_thread = "head"]
    /\ UNCHANGED <<managers, active, stopper, stops>>

ReaderLine(k) == PipeOpen(sessions[k]) /\ ReaderReadline(k)
ReaderEOF(k) == ~PipeOpen(sessions[k]) /\ ReaderReadline(k)

\* stop() is called on manager g
StopCall(g) ==
    /\ stopper = NoStop
    /\ g \in 1..managers
    /\ stops[g] < MaxStops
    /\ stopper' = [g |-> g, i |-> 1, pc |-> "item"]
    /\ UNCHANGED <<sessions, managers, active, stops>>

\* stop(): for ser_name, process in self.processes.items(): the stop event
\* is set and the join of the reader thread begins; after the last item
\* stop() returns
StopItem ==
    /\ stopper.pc = "item"
    /\ IF stopper.i > Len(StopOrder)
         THEN /\ stops' = [stops EXCEPT ![stopper.g] = @ + 1]
              /\ stopper' = NoStop
              /\ UNCHANGED sessions
         ELSE LET k == <<stopper.g, StopOrder[stopper.i]>> IN
              IF sessions[k].process = "none"
                THEN /\ stopper' = [stopper EXCEPT !.i = @ + 1]
                     /\ UNCHANGED <<sessions, stops>>
                ELSE /\ sessions' = [sessions EXCEPT ![k].stop_event = set(@)]
                     /\ stopper' = [stopper EXCEPT !.pc = "join"]
                     /\ UNCHANGED stops
    /\ UNCHANGED <<managers, active>>

\* stop(): read_threads[ser_name].join(timeout=1) returns, the thread
\* finished or not; then process.terminate()
StopJoin ==
    /\ stopper.pc = "join"
    /\ LET k == <<stopper.g, StopOrder[stopper.i]>> IN
       sessions' = [sessions EXCEPT ![k].terminated = TRUE]
    /\ stopper' = [stopper EXCEPT !.pc = "wait"]
    /\ UNCHANGED <<managers, active, stops>>

\* stop(): process.wait(timeout=3) returns because the process has exited,
\* or raises TimeoutExpired and the handler calls process.kill()
StopWait ==
    /\ stopper.pc = "wait"
    /\ LET k == <<stopper.g, StopOrder[stopper.i]>> IN
       sessions' = [sessions EXCEPT ![k].process =
                       IF @ = "running" THEN "killed" ELSE @]
    /\ stopper' = [stopper EXCEPT !.i = @ + 1, !.pc = "item"]
    /\ UNCHANGED <<managers, active, stops>>

(***************************************************************************)
(* The AI object and its execution loops (aiclass.py).  A thread that runs *)
(* a turn is also the caller of call_tool for the tools it dispatches.     *)
(***************************************************************************)
Threads == {"w1", "w2"}

\* tool names a directive can carry: a plain function of a tool file, a
\* provider tool, a name no file defines, and no name at all
LS == <<"l", "s">>
Weather == <<"w">>
DirectiveNames == {LS, func_name("a", T_c), Weather, NoName}

\* func_name.startswith('mcp_')
IsMcpName(n) == Len(n) >= 4 /\ SubSeq(n, 1, 4) = <<"m", "c", "p", "_">>

\* self.funcs after the tool files are loaded: the plain function ls and
\* the closure load_mcp_conf made for tool c of provider a
LocalFunc(n) == [name |-> n, ser |-> "", tool |-> NoName]
Registry == {LocalFunc(LS), create_tool_func("a", T_c)}

\* a model completion: plain text, text that starts with command_start
\* followed by the tool name fn (the arguments play no part in the control
\* flow and are left out), a sentence of commentary followed by such a
\* directive, or no completion because the API call raised
TextReply == [k |-> "text", fn |-> NoName]
Cmd(f) == [k |-> "cmd", fn |-> f]
Commentary(f) == [k |-> "mid", fn |-> f]
RaiseReply == [k |-> "raise", fn |-> NoName]
NoReply == [k |-> "none", fn |-> NoName]
Replies == {TextReply, RaiseReply, Commentary(LS)} \cup {Cmd(f) : f \in DirectiveNames}

\* self.command_start in get_reply
ContainsMarker(r) == r.k \in {"cmd", "mid"}

\* a test that takes every completion for a directive
StartsWithMarker_always(r) == r.k \in {"cmd", "text"}

\* get_reply.startswith(self.command_start)
StartsWithMarker(r) == r.k = "cmd"

\* tokens of process_user_input_with_history: split, strip, drop the empty
TokensFiltered(r) == IF r.fn = NoName THEN <<>> ELSE <<r.fn>>
\* tokens of the other loops: split and strip; "".split(sep) is ['']
TokensKept(r) == <<r.fn>>

\* what a tool's text can contain that the loops look for:
\* nothing of it, 'does not exist', or 'Error'
Payloads == {"plain", "dne", "err"}

\* what the callable behind a binding does when it is called: it returns
\* a string (a short non-string value is formatted the same way), returns
\* a value whose str() is longer than 100 characters and that cannot be
\* sliced, raises TypeError, raises another Exception, or raises a
\* BaseException that is not an Exception (SystemExit, KeyboardInterrupt)
Str(out) == [k |-> "str", out |-> out]
LocalOutcomes ==
    {Str(out) : out \in Payloads} \cup
    {[k |-> kk, out |-> "plain"] : kk \in {"obj_long", "raise_type", "raise_exc", "raise_base"}}

\* the strings exec_func and the loops produce as a command's result
Res(kk, f, out) == [k |-> kk, fn |-> f, out |-> out]
NoRes == Res("none", NoName, "plain")
\* "Execution interrupted by user"
Interrupted == Res("interrupted", NoName, "plain")
\* "Execution interrupted by user before ... execution"
InterruptedBefore == Res("interrupted_before", NoName, "plain")
\* f"Error: Function '{func_name}' does not exist"
Missing(f) == Res("missing", f, "plain")
\* "Error: Command format is incorrect. Please use: ..."
FormatError == Res("format", NoName, "plain")

\* "does not exist" in res
Has_does_not_exist(res) ==
    res.k = "missing" \/ (res.k \in {"ok", "failed"} /\ res.out = "dne")
\* "Error: Function" in res
Has_Error_Function(res) == res.k = "missing"
\* "Execution failed" in res
Has_Execution_failed(res) == res.k = "failed"
\* "Error" in res
Has_Error(res) ==
    res.k \in {"missing", "format"} \/ (res.k \in {"ok", "failed"} /\ res.out = "err")
\* "Execution successful" in res
Has_Execution_successful(res) == res.k = "ok"

\* a test that never takes a result for an unknown tool
IsUnknownToolResult_never(res) == FALSE

\* if "does not exist" in res or "Error: Function" in res
IsUnknownToolResult(res) == Has_does_not_exist(res) \/ Has_Error_Function(res)

\* history entries
Msg(role, kk, f, r, res) == [role |-> role, k |-> kk, fn |-> f, rep |-> r, res |-> res]
SysMsg == Msg("system", "system", NoName, NoReply, NoRes)
UserMsg == Msg("user", "input", NoName, NoReply, NoRes)
AssistantMsg(r) == Msg("assistant", "reply", NoName, r, NoRes)
\* "Execution result: {res} ..." / command_execution_prompt.format(result=res)
ResultMsg(res) == Msg("user", "result", NoName, NoReply, res)
\* f"Tool '{func_name}' is not available. ..."
FeedbackMsg(f) == Msg("user", "feedback", f, NoReply, NoRes)
\* command_retry_prompt.format(error=res)
RetryMsg(res) == Msg("user", "retry", NoName, NoReply, res)
\* final_summary_prompt
SummaryMsg == Msg("user", "summary", NoName, NoReply, NoRes)

\* if not history or history[0].get("role") != "system": history.insert(0, ...)
EnsureSystem(h) == IF h = <<>> \/ h[1].role # "system" THEN <<SysMsg>> \o h ELSE h

\* an iteration counter that does not advance
NextIteration_stuck(i) == i

\* iteration += 1
NextIteration(i) == i + 1


\* the locals of a loop before its first iteration; res is the result of
\* the last command and nok counts the tool invocations of the turn that
\* returned normally; dispatched holds the numbers of the model requests
\* whose directive was handed to its callable by the loop
IdleTurn ==
    [pc |-> "idle", variant |-> "none", iteration |-> 0, nreq |-> 0,
     history |-> <<>>, full_response |-> <<>>, summary_requested |-> FALSE,
     cur |-> NoReply, cut |-> FALSE, result |-> "none",
     res |-> NoRes, nok |-> 0, dispatched |-> {}]

\* the frame of thread t becomes T1
Frame(t, T1) == turn' = [turn EXCEPT ![t] = T1]

\* the turn of thread t returns r
Returned(T, r) == [T EXCEPT !.pc = "done", !.result = r]

\* func_name in self.funcs, and self.funcs[func_name]
Known(f) == \E b \in ai_funcs : b.name = f
Binding(f) == CHOOSE b \in ai_funcs : b.name = f

\* update_system_prompt: the content of the first system entry of conv_his
\* is replaced, or a system entry is put in front when there is none
update_system_prompt ==
    /\ conv_his' = IF \E i \in DOMAIN conv_his : conv_his[i].role = "system"
                     THEN conv_his
                     ELSE <<SysMsg>> \o conv_his
    /\ UNCHANGED <<turn, stop_flag, execution_status, ai_funcs, max_iterations,
                   max_execution_iterations>>

\* set_stop_flag(True), called from outside the loop
set_stop_flag_true ==
    /\ stop_flag' = TRUE
    /\ execution_status' = "idle"
    /\ UNCHANGED <<turn, conv_his, ai_funcs, max_iterations, max_execution_iterations>>

\* the three loops from their first line to the head of the loop
Start(t, v) ==
    /\ LET T0 == [IdleTurn EXCEPT !.variant = v] IN
       CASE v = "hist" ->
              /\ Frame(t, [T0 EXCEPT !.pc = "top",
                                     !.history = Append(EnsureSystem(conv_his), UserMsg)])
              /\ UNCHANGED <<stop_flag, execution_status, conv_his>>
         [] v = "stream" ->
              IF stop_flag
                THEN /\ stop_flag' = FALSE
                     /\ Frame(t, Returned(T0, "stopped"))
                     /\ UNCHANGED <<execution_status, conv_his>>
                ELSE /\ execution_status' = "processing"
                     /\ Frame(t, [T0 EXCEPT !.pc = "top",
                                            !.history = Append(EnsureSystem(conv_his), UserMsg)])
                     /\ UNCHANGED <<stop_flag, conv_his>>
         [] v = "plain" ->
              IF stop_flag
                THEN /\ stop_flag' = FALSE
                     /\ execution_status' = "idle"
                     /\ Frame(t, Returned(T0, "stopped"))
                     /\ UNCHANGED conv_his
                ELSE /\ execution_status' = "processing"
                     /\ conv_his' = Append(conv_his, UserMsg)
                     /\ Frame(t, [T0 EXCEPT !.pc = "top"])
                     /\ UNCHANGED stop_flag
    /\ UNCHANGED <<ai_funcs, max_iterations, max_execution_iterations>>

\* the head of the loop: the iteration cap, the stop check, the request
LoopTop(t) ==
    LET T == turn[t] IN
    /\ T.pc = "top"
    /\ IF T.iteration >= max_iterations
         THEN /\ execution_status' = "idle"
              /\ IF T.variant = "stream"
                   THEN /\ conv_his' = T.history
                        /\ Frame(t, Returned(T, "exhausted"))
                   ELSE /\ Frame(t, Returned(T, IF T.variant = "hist"
                                                   THEN "max_steps" ELSE "note"))
                        /\ UNCHANGED conv_his
              /\ UNCHANGED stop_flag
         ELSE IF stop_flag
           THEN /\ stop_flag' = FALSE
                /\ execution_status' = "idle"
                /\ Frame(t, Returned(T, "stopped"))
                /\ UNCHANGED conv_his
           ELSE /\ Frame(t, [T EXCEPT !.nreq = @ + 1,
                                      !.pc = IF T.variant = "stream" THEN "chunks" ELSE "await"])
                /\ UNCHANGED <<stop_flag, execution_status, conv_his>>
    /\ UNCHANGED <<ai_funcs, max_iterations, max_execution_iterations>>

\* a retry branch that is open at every iteration
RetryOpen_always(i) == TRUE

\* ... and iteration < 2
RetryOpen(i) == i < 2

\* the rest of the loop body once the command's result res is known; T1 is
\* the frame and st the status exec_func left
AfterExec(t, T0, res, st) ==
    LET T1 == [T0 EXCEPT !.res = res,
                         !.nok = IF res.k = "ok" THEN @ + 1 ELSE @] IN
    CASE T1.variant = "hist" ->
           /\ Frame(t, [T1 EXCEPT
                  !.history = Append(@, IF IsUnknownToolResult(res)
                                          THEN FeedbackMsg(T1.cur.fn)
                                          ELSE ResultMsg(res)),
                  !.iteration = NextIteration(@),
                  !.pc = "top"])
           /\ execution_status' = st
           /\ UNCHANGED <<stop_flag, conv_his>>
      [] T1.variant = "plain" ->
           IF stop_flag
             THEN /\ execution_status' = "idle"
                  /\ stop_flag' = FALSE
                  /\ Frame(t, Returned(T1, "stopped"))
                  /\ UNCHANGED conv_his
             ELSE /\ conv_his' = conv_his \o <<AssistantMsg(T1.cur), ResultMsg(res)>>
                  /\ Frame(t, [T1 EXCEPT !.iteration = NextIteration(@), !.pc = "top"])
                  /\ execution_status' = st
                  /\ UNCHANGED stop_flag
      [] T1.variant = "stream" ->
           LET h2 == Append(T1.history, ResultMsg(res))
               it1 == NextIteration(T1.iteration)
           IN /\ IF (Has_Execution_failed(res) \/ Has_Error(res)) /\ RetryOpen(it1)
                   THEN Frame(t, [T1 EXCEPT
                          !.history = Append(SubSeq(h2, 1, Len(h2) - 2), RetryMsg(res)),
                          !.iteration = it1, !.pc = "top"])
                   ELSE IF Has_Execution_successful(res)
                     THEN IF it1 >= max_execution_iterations
                            THEN Frame(t, [T1 EXCEPT
                                   !.history = Append(h2, SummaryMsg),
                                   !.summary_requested = TRUE,
                                   !.iteration = it1, !.pc = "top"])
                            ELSE Frame(t, [T1 EXCEPT
                                   !.history = h2, !.iteration = it1, !.pc = "top"])
                     ELSE Frame(t, [T1 EXCEPT
                            !.history = Append(h2, SummaryMsg),
                            !.summary_requested = TRUE,
                            !.iteration = NextIteration(it1), !.pc = "top"])
              /\ execution_status' = st
              /\ UNCHANGED <<stop_flag, conv_his>>

\* exec_func from its first line to the lookup: T1 is the frame with the
\* completion in cur
exec_func(t, T1) ==
    IF stop_flag
      THEN AfterExec(t, T1, Interrupted, execution_status)
      ELSE IF ~Known(T1.cur.fn)
        THEN AfterExec(t, T1, Missing(T1.cur.fn), execution_status)
        ELSE /\ execution_status' = "executing_tool"
             /\ Frame(t, [T1 EXCEPT !.pc = "exec"])
             /\ UNCHANGED <<stop_flag, conv_his>>

\* create() returns (or raises) in the loops that do not stream; r is the
\* completion, one of R
ModelReply(t, R) ==
    LET T == turn[t] IN
    /\ T.pc = "await"
    /\ \E r \in R :
         IF T.variant = "hist"
           THEN IF r.k = "raise"
                  THEN /\ execution_status' = "idle"
                       /\ Frame(t, Returned([T EXCEPT !.cur = r], "error"))
                       /\ UNCHANGED <<stop_flag, conv_his>>
                  ELSE LET T1 == [T EXCEPT !.cur = r,
                                           !.full_response = Append(@, r),
                                           !.history = Append(@, AssistantMsg(r))]
                       IN IF StartsWithMarker(r)
                            THEN IF Len(TokensFiltered(r)) < 1
                                   THEN AfterExec(t, T1, FormatError, execution_status)
                                   ELSE exec_func(t, T1)
                            ELSE /\ execution_status' = "idle"
                                 /\ Frame(t, Returned(T1, "final"))
                                 /\ UNCHANGED <<stop_flag, conv_his>>
           ELSE LET T1 == [T EXCEPT !.cur = r] IN
                IF stop_flag
                  THEN /\ stop_flag' = FALSE
                       /\ execution_status' = "idle"
                       /\ Frame(t, Returned(T1, "stopped"))
                       /\ UNCHANGED conv_his
                  ELSE IF r.k = "raise"
                    THEN /\ execution_status' = "idle"
                         /\ Frame(t, Returned(T1, "error"))
                         /\ UNCHANGED <<stop_flag, conv_his>>
                    ELSE IF StartsWithMarker(r)
                      THEN IF Len(TokensKept(r)) < 1
                             THEN AfterExec(t, T1, FormatError, execution_status)
                             ELSE exec_func(t, T1)
                      ELSE /\ conv_his' = Append(conv_his, AssistantMsg(r))
                           /\ execution_status' = "idle"
                           /\ Frame(t, Returned(T1, "final"))
                           /\ UNCHANGED stop_flag
    /\ UNCHANGED <<ai_funcs, max_iterations, max_execution_iterations>>

\* the chunk loop of process_user_input_stream ends, by its break when the
\* stop flag is set or because the stream is exhausted, with r received so
\* far; or the API raises
StreamEnd(t, R) ==
    LET T == turn[t] IN
    /\ T.pc = "chunks"
    /\ \E r \in R :
         IF r.k = "raise"
           THEN /\ execution_status' = "idle"
                /\ conv_his' = T.history
                /\ Frame(t, Returned([T EXCEPT !.cur = r], "error"))
                /\ UNCHANGED stop_flag
           ELSE LET T1 == [T EXCEPT !.cur = r, !.cut = stop_flag,
                                    !.full_response = Append(@, r),
                                    !.history = Append(@, AssistantMsg(r))]
                IN IF StartsWithMarker(r)
                     THEN IF Len(TokensKept(r)) < 1
                            THEN AfterExec(t, T1, FormatError, execution_status)
                            ELSE exec_func(t, T1)
                     ELSE IF T.iteration > 0 /\ ~T.summary_requested
                       THEN /\ Frame(t, [T1 EXCEPT
                                   !.history = Append(@, SummaryMsg),
                                   !.summary_requested = TRUE,
                                   !.iteration = NextIteration(@),
                                   !.pc = "top"])
                            /\ UNCHANGED <<stop_flag, execution_status, conv_his>>
                       ELSE /\ execution_status' = "idle"
                            /\ conv_his' = T1.history
                            /\ Frame(t, Returned(T1, "final"))
                            /\ UNCHANGED stop_flag
    /\ UNCHANGED <<ai_funcs, max_iterations, max_execution_iterations>>

\* exec_func from the status update to the call of self.funcs[func_name]:
\* the stop checks, then the callable is entered; the closure of a
\* provider tool calls mgr.call_tool
ExecCall(t) ==
    LET T == turn[t]
        b == Binding(T.cur.fn)
    IN
    /\ T.pc = "exec"
    /\ IF stop_flag
         THEN /\ AfterExec(t, T, InterruptedBefore, "stopped")
              /\ UNCHANGED mcpVars
         ELSE /\ Frame(t, [T EXCEPT !.pc = "in_tool",
                                     !.dispatched = @ \cup {T.nreq}])
              /\ UNCHANGED <<stop_flag, execution_status, conv_his>>
              /\ IF IsMcpName(T.cur.fn) /\ b.ser # ""
                   THEN call_tool(t, b.ser, b.tool) /\ UNCHANGED ncalls
                   ELSE UNCHANGED mcpVars
    /\ UNCHANGED <<ai_funcs, max_iterations, max_execution_iterations>>

\* f"Execution successful: {res}" or f"Execution failed: {e}"
ExecResult(o) ==
    IF o.k = "str" THEN Res("ok", NoName, o.out) ELSE Res("failed", NoName, "plain")

\* the callable returns or raises and exec_func finishes: o is what the
\* callable did
ToolReturn(t, o) ==
    LET T == turn[t]
        b == Binding(T.cur.fn)
    IN
    /\ T.pc = "in_tool"
    /\ IF b.ser # ""
         THEN /\ mpc[t] = "idle"
              /\ o.k = "str"
              /\ call_ret[t] = "error" => o.out = "plain"
         ELSE o \in LocalOutcomes
    /\ IF o.k = "raise_base"
         THEN /\ Frame(t, [T EXCEPT !.pc = "crashed"])
              /\ UNCHANGED <<stop_flag, execution_status, conv_his>>
         ELSE AfterExec(t, T, ExecResult(o),
                        IF b.ser = "" /\ o.k = "raise_type"
                          THEN execution_status ELSE "idle")
    /\ UNCHANGED <<ai_funcs, max_iterations, max_execution_iterations>>

(***************************************************************************)
(* The text of a directive and its tokens.  Strings are sequences of       *)
(* characters.                                                             *)
(***************************************************************************)
\* AI.command_start ("YLDEXECUTE:") and AI.command_separator ("￥|"), each
\* shortened to its first and last character
command_start == <<"Y", ":">>
command_separator == <<"$", "|">>
NewLine == <<"\n">>

\* s.startswith(p)
startswith(s, p) == Len(p) <= Len(s) /\ SubSeq(s, 1, Len(p)) = p

\* the positions of s where p occurs, and p in s
Occurrences(s, p) ==
    {i \in 1..(Len(s) - Len(p) + 1) : SubSeq(s, i, i + Len(p) - 1) = p}
Contains(s, p) == Occurrences(s, p) # {}
First(S) == CHOOSE i \in S : \A j \in S : i <= j

RECURSIVE split(_, _)
\* s.split(p): cut at the occurrences of p from left to right
split(s, p) ==
    IF ~Contains(s, p)
      THEN <<s>>
      ELSE LET i == First(Occurrences(s, p))
           IN <<SubSeq(s, 1, i - 1)>> \o split(SubSeq(s, i + Len(p), Len(s)), p)

RECURSIVE replace(_, _)
\* s.replace(p, ""): every occurrence of p is taken out, left to right
replace(s, p) ==
    IF ~Contains(s, p)
      THEN s
      ELSE LET i == First(Occurrences(s, p))
           IN SubSeq(s, 1, i - 1) \o replace(SubSeq(s, i + Len(p), Len(s)), p)

isspace(c) == c \in {" ", "\n"}

\* a strip() that leaves the string as it is
strip_none(s) == s

RECURSIVE lstrip(_)
lstrip(s) == IF s # <<>> /\ isspace(Head(s)) THEN lstrip(Tail(s)) ELSE s
RECURSIVE rstrip(_)
rstrip(s) ==
    IF s # <<>> /\ isspace(s[Len(s)]) THEN rstrip(SubSeq(s, 1, Len(s) - 1)) ELSE s
\* s.strip()
strip(s) == rstrip(lstrip(s))

\* [t.strip() for t in tokens]
StripEach(toks) == [i \in DOMAIN toks |-> strip(toks[i])]
\* [... for t in tokens if t.strip()]
NonEmpty(tok) == tok # <<>>

RECURSIVE FormatArgs(_)
FormatArgs(args) ==
    IF args = <<>>
      THEN <<>>
      ELSE <<" ">> \o command_separator \o <<" ">> \o Head(args) \o FormatArgs(Tail(args))

\* the directive the prompt asks the model for:
\* {command_start} tool_name {command_separator} param1 {command_separator} param2
format(toolName, args) == command_start \o <<" ">> \o toolName \o FormatArgs(args)

\* process_user_input_with_history: the first line that starts with
\* command_start when the completion has several lines
command_line(get_reply) ==
    IF Contains(get_reply, NewLine)
      THEN LET lines == split(get_reply, NewLine)
               hits == {i \in DOMAIN lines : startswith(lines[i], command_start)}
           IN IF hits = {} THEN get_reply ELSE lines[First(hits)]
      ELSE get_reply

\* tokens of process_user_input_with_history
tokens_with_history(get_reply) ==
    SelectSeq(StripEach(split(strip(replace(command_line(get_reply), command_start)),
                              command_separator)),
              NonEmpty)

\* tokens of process_user_input_stream
tokens_stream(current_response) ==
    StripEach(split(strip(replace(current_response, command_start)),
                    command_separator))

\* func_name = tokens[0]; args = tokens[1:]; or the format error
Parsed(tokens) ==
    IF Len(tokens) < 1
      THEN [error |-> TRUE, func_name |-> <<>>, args |-> <<>>]
      ELSE [error |-> FALSE, func_name |-> Head(tokens), args |-> Tail(tokens)]

\* tool names and arguments a directive is written for; none contains
\* command_separator
Words ==
    {<<"x">>, <<>>, <<" ", "x">>, <<"x", " ", "y">>, <<"x", "\n", "y">>,
     command_start, <<"|">>, <<"x", "Y", ":">>}
ArgLists == UNION {[1..n -> Words] : n \in 0..MaxArgs}

NoParse == [error |-> FALSE, func_name |-> <<>>, args |-> <<>>]
NoDirective ==
    [pc |-> "idle", toolName |-> <<>>, args |-> <<>>, text |-> <<>>,
     loop |-> "none", parsed |-> NoParse]
ParseIdle == directive = NoDirective

\* the model writes the directive
format_directive ==
    /\ directive.pc = "input"
    /\ directive' = [directive EXCEPT
                       !.pc = "text",
                       !.text = format(directive.toolName, directive.args)]

\* process_user_input_with_history takes the completion for a directive
\* and tokenizes it
parse_with_history ==
    /\ directive.pc = "text"
    /\ startswith(directive.text, command_start)
    /\ directive' = [directive EXCEPT
                       !.pc = "parsed", !.loop = "hist",
                       !.parsed = Parsed(tokens_with_history(directive.text))]

\* process_user_input_stream does
parse_stream ==
    /\ directive.pc = "text"
    /\ startswith(directive.text, command_start)
    /\ directive' = [directive EXCEPT
                       !.pc = "parsed", !.loop = "stream",
                       !.parsed = Parsed(tokens_stream(directive.text))]

(***************************************************************************)
(* ModernChatBox (ui/chat_box.py) in streaming mode.                       *)
(***************************************************************************)
\* _send_message: the turn is submitted to the thread pool
send_message(t) ==
    /\ current_state = "IDLE" /\ ui_pc = "idle"
    /\ turn[t].pc = "idle"
    /\ chat_records < MaxTurns
    /\ chat_records' = chat_records + 1
    /\ current_state' = "STREAMING"
    /\ Frame(t, [IdleTurn EXCEPT !.pc = "queued"])
    /\ UNCHANGED <<aiVars, ui_pc>>

\* _stop_processing up to ai_instance.set_stop_flag(True)
stop_processing ==
    /\ current_state # "IDLE" /\ ui_pc = "idle"
    /\ set_stop_flag_true
    /\ ui_pc' = "stopping"
    /\ UNCHANGED <<current_state, chat_records>>

\* _reset_state, the last call of _stop_processing
reset_state ==
    /\ ui_pc = "stopping"
    /\ current_state' = "IDLE"
    /\ stop_flag' = FALSE
    /\ ui_pc' = "idle"
    /\ UNCHANGED <<turn, execution_status, conv_his, ai_funcs, max_iterations,
                   max_execution_iterations, chat_records>>

\* _handle_streaming_result and _finalize_streaming_response, which ends
\* with _reset_state
finalize_streaming_response(t) ==
    /\ turn[t].pc = "done" /\ ui_pc = "idle"
    /\ Frame(t, IdleTurn)
    /\ current_state' = "IDLE"
    /\ stop_flag' = FALSE
    /\ UNCHANGED <<execution_status, conv_his, ai_funcs, max_iterations,
                   max_execution_iterations, ui_pc, chat_records>>

(***************************************************************************)
(* AI.update_config with a list of tool files, and the load_mcp_tools it   *)
(* calls.  self.funcs is ai_funcs.                                         *)
(***************************************************************************)
\* tool files a configuration can name; the third exists in no run
UserFiles == {"./a.py", "./b.py", "./gone.py"}
\* ocr_path and mcp_config_path of load_mcp_tools
DefaultTools == <<"./tools/ocr.py", "./tools/mcp_config.json">>

\* the funcs dict load_mcp_mod returns for a tool file
FileFuncs(path) ==
    CASE path = "./a.py" -> {LocalFunc(LS)}
      [] path = "./b.py" -> {LocalFunc(<<"c", "a", "t">>)}
      [] path = "./tools/ocr.py" -> {LocalFunc(<<"o", "c", "r">>)}
      [] path = "./tools/mcp_config.json" -> {create_tool_func("a", T_c)}
      [] OTHER -> {}

\* the lists update_config is called with
RECURSIVE PathLists(_)
PathLists(n) ==
    IF n = 0 THEN {<<>>}
    ELSE PathLists(n - 1) \cup
         {Append(l, f) : l \in {x \in PathLists(n - 1) : Len(x) = n - 1},
                         f \in UserFiles}

\* set(paths)
PathSet(paths) == {paths[i] : i \in DOMAIN paths}

\* os.path.exists(path)
exists(path) == path \in on_disk

RECURSIVE AddDefaults(_, _)
\* for tool_path in [ocr_path, mcp_config_path]: append the ones that exist
\* and are not in the list; i is the position in DefaultTools
AddDefaults(paths, i) ==
    IF i > Len(DefaultTools) THEN paths
    ELSE AddDefaults(IF exists(DefaultTools[i]) /\ DefaultTools[i] \notin PathSet(paths)
                       THEN Append(paths, DefaultTools[i]) ELSE paths,
                     i + 1)

RECURSIVE load_mult_mcp_mod(_, _)
\* all_funcs of load_mult_mcp_mod over paths, files after the i-th
load_mult_mcp_mod(paths, d) ==
    IF paths = <<>> THEN d
    ELSE load_mult_mcp_mod(Tail(paths), DictUpdate(d, FileFuncs(Head(paths))))

\* AI.update_config({'mcp_paths': new_paths}): when the set of paths
\* differs, self.mcp_paths = new_paths and load_mcp_tools(), which returns
\* at once for an empty list, appends the default tools that exist, returns
\* when no path of the list exists, and otherwise replaces self.funcs and
\* puts the tool descriptions into the system prompt
update_config(new_paths) ==
    IF PathSet(new_paths) = PathSet(mcp_paths)
      THEN UNCHANGED <<mcp_paths, ai_funcs, conv_his>>
      ELSE IF new_paths = <<>>
        THEN /\ mcp_paths' = new_paths
             /\ UNCHANGED <<ai_funcs, conv_his>>
        ELSE LET paths == AddDefaults(new_paths, 1)
                 valid_paths == SelectSeq(paths, exists)
                 loaded == load_mult_mcp_mod(valid_paths, {})
             IN /\ mcp_paths' = paths
                /\ IF valid_paths = <<>>
                     THEN UNCHANGED <<ai_funcs, conv_his>>
                     ELSE /\ ai_funcs' = loaded
                          /\ conv_his' =
                               IF loaded = {} \/ \E i \in DOMAIN conv_his :
                                                    conv_his[i].role = "system"
                                 THEN conv_his
                                 ELSE <<SysMsg>> \o conv_his

\* an AI instance made without tool files
ConfIdle ==
    /\ mcp_paths = <<>>
    /\ on_disk = {"./a.py", "./b.py"}

(***************************************************************************)
(* ModernChatBox in non-streaming mode: the worker thread runs             *)
(* process_user_input_with_history and the UI thread handles the text it   *)
(* returned.                                                               *)
(***************************************************************************)
\* the characters of a completion once command_start is taken out of it; a
\* completion has no line break
Body(r) ==
    CASE r.k = "cmd" -> r.fn
      [] r.k = "mid" -> <<"t">> \o r.fn
      [] r.k = "text" -> <<"t">>
      [] OTHER -> <<>>

RECURSIVE Bodies(_, _)
\* the same for the completions of fr after the i-th, which full_response
\* holds one after the other with nothing between them
Bodies(fr, i) == IF i >= Len(fr) THEN <<>> ELSE Body(fr[i + 1]) \o Bodies(fr, i + 1)

\* the first completion of fr that holds command_start
FirstDirective(fr) ==
    CHOOSE i \in DOMAIN fr :
       ContainsMarker(fr[i]) /\ \A j \in 1..(i - 1) : ~ContainsMarker(fr[j])

\* _extract_command and _parse_command on the text the turn returned:
\* the text from the first command_start to the end of its line, every
\* command_start taken out, is the tool name (the maximum-steps note
\* begins on a new line)
ExtractedName(fr) == fr[FirstDirective(fr)].fn \o Bodies(fr, FirstDirective(fr))

\* _check_for_command on the text a turn returned: the texts returned for
\* an interruption or an API error hold no command_start
contains_command(T) ==
    /\ T.result \in {"final", "max_steps"}
    /\ \E i \in DOMAIN T.full_response : ContainsMarker(T.full_response[i])

\* _on_non_streaming_completed on the UI thread, up to the call of the
\* tool in execute_command (validation of the name, then exec_func with
\* its stop checks), or to its end with _reset_state when no tool is
\* called
on_non_streaming_completed(t) ==
    LET T == turn[t] IN
    /\ T.pc = "done" /\ T.variant = "hist"
    /\ IF contains_command(T) /\ Known(ExtractedName(T.full_response)) /\ ~stop_flag
         THEN LET name == ExtractedName(T.full_response)
                  b == Binding(name)
              IN /\ execution_status' = "executing_tool"
                 /\ Frame(t, [T EXCEPT !.pc = "post_tool", !.cur = Cmd(name)])
                 /\ UNCHANGED <<stop_flag, conv_his>>
                 /\ IF IsMcpName(name) /\ b.ser # ""
                      THEN call_tool(t, b.ser, b.tool) /\ UNCHANGED ncalls
                      ELSE UNCHANGED mcpVars
         ELSE /\ Frame(t, [T EXCEPT !.pc = "handled"])
              /\ stop_flag' = FALSE
              /\ UNCHANGED <<execution_status, conv_his>>
              /\ UNCHANGED mcpVars
    /\ UNCHANGED <<ai_funcs, max_iterations, max_execution_iterations>>

\* the tool called by execute_command returns or raises, exec_func
\* finishes, and _on_non_streaming_completed goes on to _reset_state
command_returned(t, o) ==
    LET T == turn[t]
        b == Binding(T.cur.fn)
    IN
    /\ T.pc = "post_tool"
    /\ IF b.ser # ""
         THEN /\ mpc[t] = "idle"
              /\ o.k = "str"
              /\ call_ret[t] = "error" => o.out = "plain"
         ELSE o \in LocalOutcomes
    /\ IF o.k = "raise_base"
         THEN /\ Frame(t, [T EXCEPT !.pc = "crashed"])
              /\ UNCHANGED <<stop_flag, execution_status>>
         ELSE /\ Frame(t, [T EXCEPT !.pc = "handled", !.res = ExecResult(o)])
              /\ execution_status' = IF b.ser = "" /\ o.k = "raise_type"
                                       THEN execution_status ELSE "idle"
              /\ stop_flag' = FALSE
    /\ UNCHANGED <<conv_his, ai_funcs, max_iterations, max_execution_iterations>>

TurnIdleState ==
    /\ turn = [t \in Threads |-> IdleTurn]
    /\ stop_flag = FALSE
    /\ execution_status = "idle"
    /\ conv_his = <<>>
    /\ ai_funcs = {}
    /\ max_iterations = 1
    /\ max_execution_iterations = 1
    /\ current_state = "IDLE"
    /\ ui_pc = "idle"
    /\ chat_records = 0
    /\ ParseIdle

McpInit ==
    /\ processes = [p \in Providers |-> FALSE]
    /\ alive = [p \in Providers |-> FALSE]
    /\ output_queues = [p \in Providers |-> <<>>]
    /\ stdin = [p \in Providers |-> <<>>]
    /\ budget = [p \in Providers |-> 0]
    /\ tools = [p \in Providers |-> <<"unset">>]
    /\ mpc = [c \in Callers |-> "idle"]
    /\ op = [c \in Callers |-> ""]
    /\ ser = [c \in Callers |-> "a"]
    /\ req = [c \in Callers |-> NoReq]
    /\ elapsed = [c \in Callers |-> 0]
    /\ dropped = [c \in Callers |-> 0]
    /\ resp = [c \in Callers |-> None]
    /\ call_ret = [c \in Callers |-> ""]
    /\ ncalls = [c \in Callers |-> 0]
    /\ answered = [p \in Providers |-> 0]

McpStarted(b) ==
    /\ processes = [p \in Providers |-> p = "a"]
    /\ alive = [p \in Providers |-> p = "a"]
    /\ output_queues = [p \in Providers |-> <<>>]
    /\ stdin = [p \in Providers |-> <<>>]
    /\ budget = [p \in Providers |-> IF p = "a" THEN b ELSE 0]
    /\ tools = [p \in Providers |-> IF p = "a" THEN <<T_c>> ELSE <<"unset">>]
    /\ mpc = [c \in Callers |-> "idle"]
    /\ op = [c \in Callers |-> ""]
    /\ ser = [c \in Callers |-> "a"]
    /\ req = [c \in Callers |-> NoReq]
    /\ elapsed = [c \in Callers |-> 0]
    /\ dropped = [c \in Callers |-> 0]
    /\ resp = [c \in Callers |-> None]
    /\ call_ret = [c \in Callers |-> ""]
    /\ ncalls = [c \in Callers |-> 0]
    /\ answered = [p \in Providers |-> 0]

LoadInitState(pc0) ==
    /\ lpc = pc0
    /\ li = 1
    /\ launched = [p \in Providers |-> "pending"]
    /\ inited = [p \in Providers |-> "pending"]
    /\ funcs = {}

(***************************************************************************)
(* SpecLoad: load_mcp_conf over the configured providers, each started     *)
(* provider printing arbitrary lines or exiting at any moment.             *)
(***************************************************************************)
InitLoad == McpInit /\ LoadInitState("start") /\ MergeIdle /\ LifeIdle /\ ConfIdle /\ TurnIdleState

NextLoad ==
    \/ LoadStart /\ UNCHANGED <<mergeVars, lifeVars, confVars, parseVars, turnVars>>
    \/ LoadInit /\ UNCHANGED <<mergeVars, lifeVars, confVars, parseVars, turnVars>>
    \/ LoadAfterInit /\ UNCHANGED <<mergeVars, lifeVars, confVars, parseVars, turnVars>>
    \/ LoadNotif /\ UNCHANGED <<mergeVars, lifeVars, confVars, parseVars, turnVars>>
    \/ LoadList /\ UNCHANGED <<mergeVars, lifeVars, confVars, parseVars, turnVars>>
    \/ LoadAfterList /\ UNCHANGED <<mergeVars, lifeVars, confVars, parseVars, turnVars>>
    \/ LoadReturn /\ UNCHANGED <<mergeVars, lifeVars, confVars, parseVars, turnVars>>
    \/ (PollLine("loader", HandshakeLines) /\ UNCHANGED <<loadVars, mergeVars, lifeVars, confVars, parseVars, turnVars>>)
    \/ (PollEmpty("loader") /\ UNCHANGED <<loadVars, mergeVars, lifeVars, confVars, parseVars, turnVars>>)
    \/ (PollTimeout("loader") /\ UNCHANGED <<loadVars, mergeVars, lifeVars, confVars, parseVars, turnVars>>)
    \/ \E p \in Providers : read_loop(p) /\ UNCHANGED <<loadVars, mergeVars, lifeVars, confVars, parseVars, turnVars>>
    \/ \E p \in Providers : ProcessExit(p) /\ UNCHANGED <<loadVars, mergeVars, lifeVars, confVars, parseVars, turnVars>>

SpecLoad == InitLoad /\ [][NextLoad]_vars

(***************************************************************************)
(* SpecMerge: load_mult_mcp_mod over every list of MaxPaths tool files.    *)
(***************************************************************************)
InitMerge ==
    McpInit /\ LoadInitState("idle") /\ MergeInitState(1) /\ LifeIdle /\ ConfIdle /\ TurnIdleState

NextMerge == MergePath

SpecMerge == InitMerge /\ [][NextMerge]_vars

\* the files before the loop position that define name n
DefinedBy(n) == {i \in 1..(mi - 1) : n \in path_funcs[i].names}

Max(S) == CHOOSE x \in S : \A y \in S : y <= x

\* C5: after any number of files has been folded, a name that some of them
\* define has exactly one binding, the one of the last file that defines
\* it (also when two or more files define it), and no other name is bound.
CollisionPolicy ==
    mi >= 1 =>
      \A n \in MergeNames :
        LET bs == {x \in all_funcs : x.name = n} IN
          IF DefinedBy(n) = {} THEN bs = {}
          ELSE bs = {[name |-> n, src |-> Max(DefinedBy(n))]}

\* all files are loaded and a name was defined by two of them
CollisionWitness ==
    /\ mi = MaxPaths + 1
    /\ \E n \in MergeNames : Cardinality(DefinedBy(n)) >= 2 /\ n \in warned

(***************************************************************************)
(* Properties of load_mcp_conf.                                            *)
(***************************************************************************)
\* the named tools of a tool list
NamedTools(tl) == {tl[i] : i \in {j \in 1..Len(tl) : tl[j] # NoName}}

\* provider p has no binding in funcs and no tool list
ContributesNothing(p) ==
    /\ tools[p] = <<"unset">>
    /\ \A e \in funcs : e.ser # p

\* when the load has returned, every provider other than p was started,
\* went through init_ser when it launched, and has its named tools bound
\* when init_ser returned True
OthersLoaded(p) ==
    lpc = "done" =>
      \A q \in Providers \ {p} :
        /\ launched[q] # "pending"
        /\ launched[q] = "ok" => inited[q] # "pending"
        /\ inited[q] = "ok" =>
              \A t \in NamedTools(tools[q]) :
                 \E e \in funcs : e.ser = q /\ e.tool = t /\ e.name = func_name(q, t)

\* C6: a provider whose process failed to launch has no process, queue or
\* reader entry and no binding, and the load still goes through every
\* other provider.
DegradedLoad ==
    \A p \in Providers :
      launched[p] = "failed" =>
        /\ ~processes[p] /\ ~alive[p]
        /\ output_queues[p] = <<>> /\ stdin[p] = <<>>
        /\ inited[p] = "pending"
        /\ ContributesNothing(p)
        /\ OthersLoaded(p)

\* the first provider failed to launch and the second one is loaded
DegradedLoadWitness ==
    /\ lpc = "done"
    /\ launched["a"] = "failed"
    /\ inited["a_b"] = "ok" /\ funcs # {}

\* a response that is missing or has no "result"
NoResult(r) == r = None \/ r.res = "absent"

\* C7: when the wait for the initialize or tools/list response ends with no
\* response or with one that has no result, init_ser returns False, the
\* provider gets no tool list and no binding, and the for loop goes on to
\* the next provider.
HandshakeFailure ==
    /\ [][(/\ lpc \in {"init_wait", "list_wait"}
           /\ mpc["loader"] = "idle"
           /\ NoResult(resp["loader"])
           /\ lpc' # lpc)
          => (/\ inited'[CurSer] = "failed"
              /\ lpc' = "start" /\ li' = li + 1
              /\ funcs' = funcs /\ tools' = tools)]_vars
    /\ [](\A p \in Providers :
            inited[p] = "failed" => (ContributesNothing(p) /\ OthersLoaded(p)))

\* the first provider answered initialize but not tools/list, the second
\* one is loaded
HandshakeFailureWitness ==
    /\ lpc = "done"
    /\ inited["a"] = "failed" /\ Len(stdin["a"]) = 3
    /\ inited["a_b"] = "ok" /\ funcs # {}

(***************************************************************************)
(* SpecCall: provider "a" is started and a worker thread uses it.          *)
(***************************************************************************)
InitCall ==
    /\ McpStarted(MaxLines)
    /\ LoadInitState("idle")
    /\ MergeIdle /\ LifeIdle /\ ConfIdle
    /\ TurnIdleState

\* the threads that call into the manager in SpecCall
CallWorkers == {"w1"}

\* a thread calls send_mcp_req or call_tool
CallerBegin(c) ==
    /\ ncalls[c] < MaxCalls
    /\ \/ \E r \in {init_req, init_notif, tools_req} : send_mcp_req(c, "a", r, "send")
       \/ call_tool(c, "a", T_c)

\* the polling loop of send_mcp_req on a worker thread
CallerPoll(c) ==
    /\ PollLine(c, CallLines) \/ PollEmpty(c) \/ PollTimeout(c)
    /\ UNCHANGED <<loadVars, mergeVars, lifeVars, confVars, parseVars, turnVars>>

NextCall ==
    \/ read_loop("a") /\ UNCHANGED <<loadVars, mergeVars, lifeVars, confVars, parseVars, turnVars>>
    \/ ProcessExit("a") /\ UNCHANGED <<loadVars, mergeVars, lifeVars, confVars, parseVars, turnVars>>
    \/ Respond("a") /\ UNCHANGED <<loadVars, mergeVars, lifeVars, confVars, parseVars, turnVars>>
    \/ \E c \in CallWorkers :
          CallerBegin(c) /\ ncalls' = [ncalls EXCEPT ![c] = @ + 1] /\ UNCHANGED <<loadVars, mergeVars, lifeVars, confVars, parseVars, turnVars>>
    \/ \E c \in CallWorkers : CallerPoll(c)

SpecCall == InitCall /\ [][NextCall]_vars

\* the polling loop runs on a thread the scheduler keeps running
FairCall ==
    SpecCall /\ \A c \in CallWorkers : WF_vars(CallerPoll(c))

(***************************************************************************)
(* Properties of send_mcp_req / call_tool.                                 *)
(***************************************************************************)
\* C1: whatever lines the provider has queued ahead of it (responses with
\* other ids, objects without an id, text, broken JSON), the response
\* send_mcp_req hands back carries the id of the request that was sent;
\* every other line popped on the way is dropped, not returned.
CorrelationInvariant ==
    \A c \in Callers :
        /\ resp[c] # None => (resp[c].k = "obj" /\ resp[c].id = req[c].id)
        /\ call_ret[c] = "result" => (resp[c].id = CallId /\ req[c].id = CallId)

\* a call_tool that returned the matching response after dropping a line
CorrelationWitness ==
    /\ op["w1"] = "call_tool" /\ mpc["w1"] = "idle"
    /\ call_ret["w1"] = "result"
    /\ dropped["w1"] >= 1

\* C8: a request with an id that is being waited for always returns, and a
\* call_tool whose request got no response returns the error value.
RequestsReturn ==
    /\ \A c \in Callers : (mpc[c] = "poll") ~> (mpc[c] = "idle")
    /\ [](\A c \in Callers :
            (op[c] = "call_tool" /\ mpc[c] = "idle" /\ resp[c] = None)
                => call_ret[c] = "error")

\* a call_tool that timed out after the process had exited
TimeoutWitness ==
    /\ op["w1"] = "call_tool" /\ mpc["w1"] = "idle"
    /\ ~alive["a"] /\ Len(stdin["a"]) > 0
    /\ elapsed["w1"] = Timeout
    /\ call_ret["w1"] = "error"

(***************************************************************************)
(* SpecTurn: a thread runs a turn of one of the three loops on an AI object *)
(* whose registry holds a plain function and a provider tool, while        *)
(* set_stop_flag(True) may be called at any moment.                        *)
(***************************************************************************)
InitTurn ==
    /\ McpStarted(TurnLines)
    /\ LoadInitState("idle")
    /\ MergeIdle /\ LifeIdle /\ ConfIdle
    /\ turn = [t \in Threads |-> IdleTurn]
    /\ stop_flag = FALSE
    /\ execution_status = "idle"
    /\ conv_his = <<>>
    /\ ai_funcs = Registry
    /\ max_iterations \in 1..MaxIter
    /\ max_execution_iterations \in 1..MaxExec
    /\ current_state = "IDLE"
    /\ ui_pc = "idle"
    /\ chat_records = 0
    /\ ParseIdle

\* the thread that runs the turns of SpecTurn
TurnWorker == "w1"

\* process_user_input_with_history / process_user_input_stream /
\* _process_user_inp_non_stream is called
TurnStart(t, v) == turn[t].pc = "idle" /\ Start(t, v)

\* the polling loop of send_mcp_req under call_tool
ToolPoll(t) ==
    /\ PollLine(t, CallLines) \/ PollEmpty(t) \/ PollTimeout(t)
    /\ UNCHANGED <<loadVars, mergeVars, lifeVars, confVars, parseVars, turnVars>>

NextTurn ==
    \/ \E v \in {"hist", "stream", "plain"} :
          TurnStart(TurnWorker, v) /\ UNCHANGED <<mcpVars, loadVars, mergeVars, lifeVars, confVars, parseVars, uiVars>>
    \/ LoopTop(TurnWorker) /\ UNCHANGED <<mcpVars, loadVars, mergeVars, lifeVars, confVars, parseVars, uiVars>>
    \/ ModelReply(TurnWorker, Replies) /\ UNCHANGED <<mcpVars, loadVars, mergeVars, lifeVars, confVars, parseVars, uiVars>>
    \/ StreamEnd(TurnWorker, Replies) /\ UNCHANGED <<mcpVars, loadVars, mergeVars, lifeVars, confVars, parseVars, uiVars>>
    \/ ExecCall(TurnWorker) /\ UNCHANGED <<loadVars, mergeVars, lifeVars, confVars, parseVars, uiVars>>
    \/ \E o \in LocalOutcomes :
          ToolReturn(TurnWorker, o) /\ UNCHANGED <<mcpVars, loadVars, mergeVars, lifeVars, confVars, parseVars, uiVars>>
    \/ ToolPoll(TurnWorker)
    \/ on_non_streaming_completed(TurnWorker) /\ UNCHANGED <<loadVars, mergeVars, lifeVars, confVars, parseVars, uiVars>>
    \/ \E o \in LocalOutcomes :
          command_returned(TurnWorker, o) /\ UNCHANGED <<mcpVars, loadVars, mergeVars, lifeVars, confVars, parseVars, uiVars>>
    \/ read_loop("a") /\ UNCHANGED <<loadVars, mergeVars, lifeVars, confVars, parseVars, turnVars>>
    \/ set_stop_flag_true /\ UNCHANGED <<mcpVars, loadVars, mergeVars, lifeVars, confVars, parseVars, uiVars>>

SpecTurn == InitTurn /\ [][NextTurn]_vars

(***************************************************************************)
(* SpecUI: the chat window in streaming mode with its pool of two worker   *)
(* threads; the user sends MaxTurns messages and the model answers with    *)
(* text or with a directive for the provider tool.                         *)
(***************************************************************************)
UIReplies == {TextReply, Cmd(func_name("a", T_c))}

InitUI ==
    /\ McpStarted(TurnLines)
    /\ LoadInitState("idle")
    /\ MergeIdle /\ LifeIdle /\ ConfIdle
    /\ turn = [t \in Threads |-> IdleTurn]
    /\ stop_flag = FALSE
    /\ execution_status = "idle"
    /\ conv_his = <<>>
    /\ ai_funcs = Registry
    /\ max_iterations = MaxIter
    /\ max_execution_iterations = MaxExec
    /\ current_state = "IDLE"
    /\ ui_pc = "idle"
    /\ chat_records = 0
    /\ ParseIdle

\* a pool thread takes the submitted turn
WorkerStart(t) == turn[t].pc = "queued" /\ Start(t, "stream")

NextUI ==
    \/ \E t \in Threads : send_message(t) /\ UNCHANGED <<mcpVars, loadVars, mergeVars, lifeVars, confVars, parseVars>>
    \/ stop_processing /\ UNCHANGED <<mcpVars, loadVars, mergeVars, lifeVars, confVars, parseVars>>
    \/ reset_state /\ UNCHANGED <<mcpVars, loadVars, mergeVars, lifeVars, confVars, parseVars>>
    \/ \E t \in Threads :
          finalize_streaming_response(t) /\ UNCHANGED <<mcpVars, loadVars, mergeVars, lifeVars, confVars, parseVars>>
    \/ \E t \in Threads :
          WorkerStart(t) /\ UNCHANGED <<mcpVars, loadVars, mergeVars, lifeVars, confVars, parseVars, uiVars>>
    \/ \E t \in Threads :
          LoopTop(t) /\ UNCHANGED <<mcpVars, loadVars, mergeVars, lifeVars, confVars, parseVars, uiVars>>
    \/ \E t \in Threads :
          StreamEnd(t, UIReplies) /\ UNCHANGED <<mcpVars, loadVars, mergeVars, lifeVars, confVars, parseVars, uiVars>>
    \/ \E t \in Threads : ExecCall(t) /\ UNCHANGED <<loadVars, mergeVars, lifeVars, confVars, parseVars, uiVars>>
    \/ \E t \in Threads : \E out \in Payloads :
          ToolReturn(t, Str(out)) /\ UNCHANGED <<mcpVars, loadVars, mergeVars, lifeVars, confVars, parseVars, uiVars>>
    \/ \E t \in Threads : ToolPoll(t)
    \/ read_loop("a") /\ UNCHANGED <<loadVars, mergeVars, lifeVars, confVars, parseVars, turnVars>>

SpecUI == InitUI /\ [][NextUI]_vars

(***************************************************************************)
(* Properties of the execution loops and of the chat window.               *)
(***************************************************************************)
\* caller c is inside call_tool on provider p: its tools/call request is
\* written and it polls the provider's queue
(***************************************************************************)
(* SpecParse: directives written for every tool name and argument list of  *)
(* the bounded sets, tokenized by the two loops.                           *)
(***************************************************************************)
InitParse ==
    /\ McpInit /\ LoadInitState("idle") /\ MergeIdle /\ LifeIdle /\ ConfIdle
    /\ turn = [t \in Threads |-> IdleTurn]
    /\ stop_flag = FALSE
    /\ execution_status = "idle"
    /\ conv_his = <<>>
    /\ ai_funcs = {}
    /\ max_iterations = 1
    /\ max_execution_iterations = 1
    /\ current_state = "IDLE"
    /\ ui_pc = "idle"
    /\ chat_records = 0
    /\ \E n \in Words, a \in ArgLists :
          directive = [NoDirective EXCEPT !.pc = "input", !.toolName = n, !.args = a]

NextParse ==
    \/ format_directive /\ UNCHANGED <<mcpVars, loadVars, mergeVars, lifeVars, confVars, turnVars>>
    \/ parse_with_history /\ UNCHANGED <<mcpVars, loadVars, mergeVars, lifeVars, confVars, turnVars>>
    \/ parse_stream /\ UNCHANGED <<mcpVars, loadVars, mergeVars, lifeVars, confVars, turnVars>>

SpecParse == InitParse /\ [][NextParse]_vars

(***************************************************************************)
(* SpecHistory: a turn of process_user_input_with_history or               *)
(* process_user_input_stream started on any history of the bounded set;    *)
(* the model answers with text or names a tool the registry lacks.         *)
(***************************************************************************)
\* histories a caller can hand to the loops (set_current_history, the
\* external_history and conversation_history parameters)
InputMessages == {SysMsg, UserMsg, AssistantMsg(TextReply)}
InputHistories == UNION {[1..n -> InputMessages] : n \in 0..MaxHist}
HistoryReplies == {TextReply, Cmd(Weather)}

InitHistory ==
    /\ McpInit /\ LoadInitState("idle") /\ MergeIdle /\ LifeIdle /\ ConfIdle /\ ParseIdle
    /\ turn = [t \in Threads |-> IdleTurn]
    /\ stop_flag = FALSE
    /\ execution_status = "idle"
    /\ conv_his \in InputHistories
    /\ ai_funcs = Registry
    /\ max_iterations \in 1..MaxIter
    /\ max_execution_iterations = 1
    /\ current_state = "IDLE"
    /\ ui_pc = "idle"
    /\ chat_records = 0

NextHistory ==
    \/ (/\ turn[TurnWorker].pc = "idle"
        /\ update_system_prompt
        /\ UNCHANGED <<mcpVars, loadVars, mergeVars, lifeVars, confVars, parseVars, uiVars>>)
    \/ \E v \in {"hist", "stream"} :
          TurnStart(TurnWorker, v) /\ UNCHANGED <<mcpVars, loadVars, mergeVars, lifeVars, confVars, parseVars, uiVars>>
    \/ LoopTop(TurnWorker) /\ UNCHANGED <<mcpVars, loadVars, mergeVars, lifeVars, confVars, parseVars, uiVars>>
    \/ ModelReply(TurnWorker, HistoryReplies) /\ UNCHANGED <<mcpVars, loadVars, mergeVars, lifeVars, confVars, parseVars, uiVars>>
    \/ StreamEnd(TurnWorker, HistoryReplies) /\ UNCHANGED <<mcpVars, loadVars, mergeVars, lifeVars, confVars, parseVars, uiVars>>

SpecHistory == InitHistory /\ [][NextHistory]_vars

InFlight(c, p) == op[c] = "call_tool" /\ mpc[c] = "poll" /\ ser[c] = p

\* C2: at no moment are two call_tool invocations in flight against the
\* same provider, whatever the worker threads and the user (send, stop,
\* send again) do.
SerializedCalls ==
    \A p \in Providers : Cardinality({c \in Callers : InFlight(c, p)}) <= 1

\* the loop of thread t has seen the stop flag set at a suspension point:
\* the chunk loop was left through its break, or exec_func returned one of
\* its interruption texts instead of invoking the tool
ObservedStop(t) ==
    \/ turn[t].cut
    \/ \E i \in DOMAIN turn[t].history :
          turn[t].history[i].res.k \in {"interrupted", "interrupted_before"}

\* C3: a turn during which the stop flag was set before a tool invocation
\* or while the streamed completion was consumed returns the interruption
\* result.
CancellationReturnsInterruption ==
    \A t \in Threads :
        (turn[t].pc = "done" /\ ObservedStop(t)) => turn[t].result = "stopped"

\* C4: a turn makes at most max_iterations model-completion requests, in
\* each of the three loops and on every path through them.
IterationBound ==
    \A t \in Threads : turn[t].nreq <= max_iterations

\* a streaming turn that used up its iterations after a retry substitution
IterationBoundWitness ==
    \E t \in Threads :
        /\ turn[t].pc = "done" /\ turn[t].variant = "stream"
        /\ turn[t].result = "exhausted"
        /\ max_iterations = MaxIter /\ turn[t].nreq = max_iterations
        /\ \E i \in DOMAIN turn[t].history : turn[t].history[i].k = "retry"

\* C9: exec_func always returns a string to the loop that called it; no
\* exception of the callable leaves exec_func.
ExecFuncReturnsString ==
    \A t \in Threads : turn[t].pc # "crashed"

\* a step in which process_user_input_with_history receives a directive
\* that names a tool the registry does not hold
UnknownToolStep(t) ==
    /\ turn[t].pc = "await" /\ turn[t].variant = "hist"
    /\ turn'[t].pc # "await"
    /\ turn'[t].cur.k = "cmd" /\ turn'[t].cur.fn # NoName
    /\ ~Known(turn'[t].cur.fn)

\* the step appends the directive and then m, counts one iteration, enters
\* no tool and is back at the head of the loop
LoopGoesOnWith(t, m) ==
    /\ turn'[t].history = turn[t].history \o <<AssistantMsg(turn'[t].cur), m>>
    /\ turn'[t].iteration = turn[t].iteration + 1
    /\ turn'[t].pc = "top"

\* C10 as stated: a directive that names an absent tool invokes no tool,
\* appends the user-role message naming the tool, and the loop goes on.
UnknownToolFeedback ==
    [][\A t \in Threads :
         UnknownToolStep(t) => LoopGoesOnWith(t, FeedbackMsg(turn'[t].cur.fn))]_vars

\* C10: a directive that names an absent tool invokes no tool and the loop
\* goes back to its head with one iteration counted; when the stop flag is
\* clear the message appended is the user-role message naming the tool,
\* when it is set the message is the interruption text as an execution
\* result.
UnknownToolFeedbackUnlessStopped ==
    [][\A t \in Threads :
         UnknownToolStep(t) =>
           LoopGoesOnWith(t, IF stop_flag THEN ResultMsg(Interrupted)
                                          ELSE FeedbackMsg(turn'[t].cur.fn))]_vars

\* the loop asked the model again after the message naming the absent tool
UnknownToolWitness ==
    \E t \in Threads :
        /\ turn[t].variant = "hist" /\ turn[t].pc = "await"
        /\ turn[t].nreq = 2
        /\ turn[t].history[Len(turn[t].history)] = FeedbackMsg(Weather)

\* a step of thread t in which a loop receives the result of a command and
\* goes on to the lines after it
ResultStep(t) ==
    /\ turn[t].pc \in {"await", "chunks", "exec", "in_tool"}
    /\ turn'[t].pc \in {"top", "done"}
    /\ turn'[t].cur.k = "cmd"
    /\ turn'[t].res # NoRes
    /\ ~(turn[t].pc = "await" /\ turn'[t].pc = "done")

\* the result is a tool failure ("Execution failed: ...") or the format
\* error text
IsFailure(res) == res.k \in {"failed", "format"}

\* C11: a tool failure or a format error does not end the turn and costs
\* exactly one iteration: unless a stop is pending, the loop is back at its
\* head with the iteration counter one higher.
FailureCostsOneIteration ==
    [][\A t \in Threads :
         (ResultStep(t) /\ IsFailure(turn'[t].res) /\ ~stop_flag) =>
            /\ turn'[t].pc = "top"
            /\ turn'[t].iteration = turn[t].iteration + 1]_vars

\* the tool name and the arguments came back as they were written
SameDirective ==
    /\ ~directive.parsed.error
    /\ directive.parsed.func_name = directive.toolName
    /\ directive.parsed.args = directive.args

\* C12 as stated: the directive written for any tool name and any
\* arguments without the separator is tokenized into that tool name and
\* those arguments.
ParserRoundTrip == directive.pc = "parsed" => SameDirective

\* a word the tokenizer of the loop leaves as it is
Plain(w) == strip(w) = w /\ ~Contains(w, command_start)
OneLine(w) == w # <<>> /\ ~Contains(w, NewLine)
Preserved(loop, w) == Plain(w) /\ (loop = "hist" => OneLine(w))

\* C12: the directive is tokenized into the tool name and the arguments it
\* was written for when none of them has blanks at its ends or contains
\* the start marker and, in process_user_input_with_history, none is empty
\* or contains a line break.
ParserRoundTripPlainWords ==
    (/\ directive.pc = "parsed"
     /\ Preserved(directive.loop, directive.toolName)
     /\ \A i \in DOMAIN directive.args : Preserved(directive.loop, directive.args[i]))
    => SameDirective

\* two plain arguments came back from both loops' tokenizer
ParserRoundTripWitness ==
    /\ directive.pc = "parsed" /\ directive.loop = "hist"
    /\ directive.toolName = <<"x">>
    /\ directive.args = <<<<"x", " ", "y">>, <<"|">>>>
    /\ SameDirective

\* C13: when load_mcp_conf has returned, every named tool t of a provider
\* p whose handshake succeeded has exactly one binding named
\* f"mcp_{p}_{t}", the closure that forwards to call_tool(p, t), and p has
\* no binding besides those of its named tools.
QualifiedBindings ==
    lpc = "done" =>
      \A p \in Providers :
        inited[p] = "ok" =>
          /\ \A t \in NamedTools(tools[p]) :
                {e \in funcs : e.name = func_name(p, t)} = {create_tool_func(p, t)}
          /\ \A e \in funcs : e.ser = p => e.tool \in NamedTools(tools[p])

\* thread t passes the head of its loop with iterations left and the stop
\* flag set
StopSeenAtTop(t) ==
    /\ turn[t].pc = "top" /\ turn'[t] # turn[t]
    /\ turn[t].iteration < max_iterations
    /\ stop_flag

\* C14: a loop that finds the stop flag set at the head of an iteration
\* clears it, publishes the status "stopped" and returns the interruption
\* result at once, with no further model request.
StopAtTopPublishesStopped ==
    [][\A t \in Threads :
         StopSeenAtTop(t) =>
            /\ stop_flag' = FALSE
            /\ execution_status' = "stopped"
            /\ turn'[t] = Returned(turn[t], "stopped")]_vars

\* the history has one system entry and it is the first entry
OneSystemFirst(h) ==
    /\ h # <<>> /\ h[1].role = "system"
    /\ \A i \in 2..Len(h) : h[i].role # "system"

\* C15: the history of every model request of a turn has exactly one
\* system entry, at index 0, whatever history the turn was started with.
SystemEntryUniqueFirst ==
    \A t \in Threads :
        turn[t].pc \in {"await", "chunks"} => OneSystemFirst(turn[t].history)

\* process_user_input_with_history receives a completion that does not
\* start with the marker
PlainCompletionStep(t) ==
    /\ turn[t].variant = "hist" /\ turn[t].pc = "await"
    /\ turn'[t].pc # "await"
    /\ turn'[t].cur.k = "text"

CompletionStep(t) ==
    /\ turn[t].variant \in {"hist", "stream"}
    /\ turn[t].pc \in {"await", "chunks"}
    /\ turn'[t].pc # turn[t].pc
    /\ turn'[t].cur.k \in {"text", "cmd", "mid"}

\* the loop handles the completion as text: it is the final answer, or the
\* streaming loop asks for the summary after it
TakenAsText(t) ==
    \/ turn'[t].pc = "done" /\ turn'[t].result = "final"
    \/ /\ turn'[t].pc = "top"
       /\ turn'[t].history =
             turn[t].history \o <<AssistantMsg(turn'[t].cur), SummaryMsg>>

\* C17: a completion is dispatched as a directive exactly when the start
\* marker occurs somewhere in it; commentary before the marker does not
\* make it the final answer.
MarkerAnywhereIsDirective ==
    [][\A t \in Threads :
         CompletionStep(t) => (ContainsMarker(turn'[t].cur) <=> ~TakenAsText(t))]_vars

\* a loop receives a directive with nothing after the marker
EmptyDirectiveStep(t) ==
    /\ turn[t].pc \in {"await", "chunks"}
    /\ turn'[t].pc # turn[t].pc
    /\ turn'[t].cur = Cmd(NoName)

\* the step looks no tool up, appends a user message with the format error
\* text, counts one iteration and is back at the head of the loop
FormatErrorFedBack(t) ==
    /\ turn'[t].res = FormatError
    /\ LET h == turn'[t].history IN
         /\ Len(h) > Len(turn[t].history)
         /\ h[Len(h)].role = "user" /\ h[Len(h)].res = FormatError
    /\ turn'[t].iteration = turn[t].iteration + 1
    /\ turn'[t].pc = "top"

\* C18: a directive with no token after the marker is a format error in
\* process_user_input_with_history and in process_user_input_stream: no
\* lookup, the format error fed back as a user message, one iteration
\* counted, the loop goes on.
EmptyDirectiveIsFormatError ==
    [][\A t \in Threads :
         (EmptyDirectiveStep(t) /\ turn[t].variant \in {"hist", "stream"})
            => FormatErrorFedBack(t)]_vars

\* thread t leaves its loop because the iterations are used up, the last
\* completion having been a directive
CapStep(t) ==
    /\ turn[t].pc = "top" /\ turn'[t] # turn[t]
    /\ turn[t].iteration >= max_iterations
    /\ turn[t].cur.k = "cmd"

\* C19: a turn that uses up max_iterations without a completion that is
\* not a directive returns the accumulated output followed by the
\* maximum-steps note, and the status ends idle.
MaxStepsNoticeReturned ==
    [][\A t \in Threads :
         CapStep(t) =>
            /\ turn'[t] = Returned(turn[t], "max_steps")
            /\ execution_status' = "idle"]_vars

\* the streaming loop receives the result of a tool that returned normally,
\* and the turn has then had max_execution_iterations such invocations
SuccessLimitStep(t) ==
    /\ turn[t].variant = "stream"
    /\ ResultStep(t)
    /\ turn'[t].res.k = "ok"
    /\ turn'[t].nok = turn[t].nok + 1
    /\ turn'[t].nok >= max_execution_iterations

\* C20: once max_execution_iterations tool invocations of a streaming turn
\* have succeeded, the summary request is the last entry of the history
\* when the loop is back at its head, before the next model request.
SummaryForcedAfterSuccesses ==
    [][\A t \in Threads :
         SuccessLimitStep(t) =>
            /\ turn'[t].pc = "top"
            /\ turn'[t].summary_requested
            /\ turn'[t].history[Len(turn'[t].history)] = SummaryMsg]_vars

\* the callable of thread t has returned, exec_func has finished and the
\* loop is back at its head for the next model request
ToolReturnedStep(t) ==
    /\ turn[t].pc = "in_tool"
    /\ turn'[t].pc = "top"

\* C21: when a tool invocation has returned and the loop goes on to the
\* next model request, the published status is "processing" again, not
\* "idle".
ProcessingAfterToolReturn ==
    [][\A t \in Threads :
         ToolReturnedStep(t) => execution_status' = "processing"]_vars

\* the model request of thread t raises and the turn ends
ModelRaisedStep(t) ==
    /\ turn[t].pc \in {"await", "chunks"}
    /\ turn'[t].pc = "done"
    /\ turn'[t].cur = RaiseReply
    /\ turn'[t].result = "error"

\* C22: when the model request raises, the turn ends and the published
\* status is "error".
ModelFailurePublishesError ==
    [][\A t \in Threads :
         ModelRaisedStep(t) => execution_status' = "error"]_vars

\* C23: while a thread is inside the callable of a tool, the published
\* status is never "idle": nothing outside the loop writes the status.
NoIdleDuringTool ==
    \A t \in Threads : turn[t].pc = "in_tool" => execution_status # "idle"

(***************************************************************************)
(* SpecStop: the tool descriptor is loaded up to MaxLoads times and stop() *)
(* is called on the managers, while the processes and the reader threads   *)
(* run.  FairStop adds that a thread which can take its next step does:    *)
(* the reader threads and the thread inside stop() are scheduled.  Nothing *)
(* obliges a process to exit or to print.                                  *)
(***************************************************************************)
InitStop ==
    McpInit /\ LoadInitState("idle") /\ MergeIdle /\ LifeIdle /\ ConfIdle /\ TurnIdleState

LifeRest == <<mcpVars, loadVars, mergeVars, confVars, parseVars, turnVars>>

NextStop ==
    \/ load_mcp_tools /\ UNCHANGED LifeRest
    \/ \E k \in Sessions : LifeProcessExit(k) /\ UNCHANGED LifeRest
    \/ \E k \in Sessions : LifeChildExit(k) /\ UNCHANGED LifeRest
    \/ \E k \in Sessions : ReaderHead(k) /\ UNCHANGED LifeRest
    \/ \E k \in Sessions : ReaderLine(k) /\ UNCHANGED LifeRest
    \/ \E k \in Sessions : ReaderEOF(k) /\ UNCHANGED LifeRest
    \/ \E g \in 1..MaxLoads : StopCall(g) /\ UNCHANGED LifeRest
    \/ StopItem /\ UNCHANGED LifeRest
    \/ StopJoin /\ UNCHANGED LifeRest
    \/ StopWait /\ UNCHANGED LifeRest

SpecStop == InitStop /\ [][NextStop]_vars

FairStop ==
    /\ SpecStop
    /\ \A k \in Sessions : WF_vars(ReaderHead(k) /\ UNCHANGED LifeRest)
    /\ \A k \in Sessions : WF_vars(ReaderEOF(k) /\ UNCHANGED LifeRest)
    /\ WF_vars((StopItem \/ StopJoin \/ StopWait) /\ UNCHANGED LifeRest)

(***************************************************************************)
(* Properties of the life cycle of provider sessions.                      *)
(***************************************************************************)
\* the session has a process or a reader thread that still runs
Running(s) ==
    s.process = "running" \/ s.child = "running"
       \/ s.read_thread \in {"head", "readline"}

\* C24: after any sequence of loads, every session that still runs belongs
\* to the manager AI.funcs uses: a reload leaves no process and no reader
\* of the previous load running.
OneSessionPerProvider ==
    \A k \in Sessions : Running(sessions[k]) => k[1] = active

\* a step of a call of stop() on a manager on which stop() has returned
\* before
SecondStopStep ==
    /\ stopper.g # 0
    /\ stops[stopper.g] >= 1
    /\ stopper' # stopper

\* every process of manager g has exited and every stop event is set
Stopped(g) ==
    \A k \in Sessions :
       (k[1] = g /\ sessions[k].process # "none")
          => /\ sessions[k].process \in {"exited", "killed"}
             /\ sessions[k].stop_event
             /\ sessions[k].terminated

\* C25: a call of stop() on a manager that was stopped before changes
\* nothing: every step of it leaves the sessions as they are, all
\* processes exited and all stop events set, and the call returns.
StopIdempotent ==
    [][SecondStopStep =>
          /\ sessions' = sessions
          /\ Stopped(stopper.g)
          /\ stopper'.pc \in {"idle", "item", "join", "wait"}]_vars

StopIdempotentWitness ==
    \E g \in 1..MaxLoads :
       /\ stops[g] = 2
       /\ \E k \in Sessions : k[1] = g /\ sessions[k].process = "killed"

\* stop() has returned on the manager of session k, which it started
StopReturned(k) == stops[k[1]] >= 1 /\ sessions[k].process # "none"

\* C26: once stop() has returned, every provider the manager started has
\* its stop event set and its process terminated and exited or killed,
\* and its reader thread eventually ends.
ReaderEndsAfterStop ==
    /\ [](\A g \in 1..MaxLoads : stops[g] >= 1 => Stopped(g))
    /\ \A k \in Sessions :
          StopReturned(k) ~> (sessions[k].read_thread = "done")

\* the same for the providers that were launched without a shell
DirectReaderEndsAfterStop ==
    /\ [](\A g \in 1..MaxLoads : stops[g] >= 1 => Stopped(g))
    /\ \A k \in Sessions :
          (StopReturned(k) /\ ~sessions[k].shell)
             ~> (sessions[k].read_thread = "done")

(***************************************************************************)
(* Properties of the handshake.                                            *)
(***************************************************************************)
\* init_ser sends the notification notifications/initialized
NotificationStep == lpc = "notif" /\ lpc' = "list"

\* C27: a request without an id is written to the provider and
\* send_mcp_req returns at once with None: the caller does not enter the
\* polling loop and no line leaves the provider's output queue.
NotificationReturnsAtOnce ==
    [][NotificationStep =>
          /\ req'["loader"].id = NoId
          /\ alive[CurSer] => stdin'[CurSer] = Append(stdin[CurSer], req'["loader"])
          /\ mpc'["loader"] = "idle"
          /\ resp'["loader"] = None
          /\ elapsed'["loader"] = 0
          /\ output_queues' = output_queues]_vars

NotificationWitness ==
    /\ lpc = "list"
    /\ stdin[CurSer] = <<init_req, init_notif>>
    /\ output_queues[CurSer] # <<>>
    /\ mpc["loader"] = "idle"

\* the methods of the requests written to provider p, in order
Methods(p) == [i \in DOMAIN stdin[p] |-> stdin[p][i].method]

HandshakeMethods == <<"initialize", "notifications/initialized", "tools/list">>

\* something is written to provider p after its initialize request
WrittenAfterInitialize(p) ==
    /\ Len(stdin[p]) = 1
    /\ Len(stdin'[p]) = 2

\* C28: the handshake messages are written in the order initialize,
\* notifications/initialized, tools/list; the notification (and so
\* tools/list) is written only after a response with the id of the
\* initialize request and a result was received; and a tool is bound, so
\* that tools/call can be sent, only for a provider whose handshake is
\* complete.
HandshakeOrder ==
    /\ [](\A p \in Providers :
            /\ Len(stdin[p]) <= 3
            /\ Methods(p) = SubSeq(HandshakeMethods, 1, Len(stdin[p]))
            /\ \A b \in funcs :
                  b.ser = p => (inited[p] = "ok" /\ Len(stdin[p]) = 3))
    /\ [][\A p \in Providers :
            WrittenAfterInitialize(p) =>
               /\ resp["loader"].k = "obj"
               /\ resp["loader"].id = InitId
               /\ resp["loader"].res # "absent"]_vars

HandshakeOrderWitness ==
    /\ lpc = "done"
    /\ \E b \in funcs : Methods(b.ser) = HandshakeMethods
    /\ \E p \in Providers : launched[p] = "ok" /\ inited[p] = "failed" /\ Len(stdin[p]) = 1

(***************************************************************************)
(* Properties of the retry policy of the streaming loop.                   *)
(***************************************************************************)
\* the result says that the invocation failed: it has "Execution failed"
\* or "Error" in it and not "Execution successful"
FailedInvocation(res) ==
    /\ ~Has_Execution_successful(res)
    /\ Has_Execution_failed(res) \/ Has_Error(res)

\* the history of thread t before the directive it is executing was
\* appended
BeforeDirective(t) ==
    IF turn[t].pc = "chunks"
      THEN turn[t].history
      ELSE SubSeq(turn[t].history, 1, Len(turn[t].history) - 1)

\* the retry prompts in the history of thread t
Retries(t) == {i \in DOMAIN turn[t].history : turn[t].history[i].k = "retry"}

\* C29: in the streaming loop a failed invocation at the first iteration
\* takes the directive and its result out of the history and appends the
\* retry prompt; a failed invocation at a later iteration leaves them in
\* and appends the final-summary request; a turn has at most one retry.
RetryAtMostOnce ==
    /\ [](\A t \in Threads :
            turn[t].variant = "stream" => Cardinality(Retries(t)) <= 1)
    /\ [][\A t \in Threads :
            (turn[t].variant = "stream" /\ ResultStep(t)
               /\ FailedInvocation(turn'[t].res))
            => /\ turn'[t].pc = "top"
               /\ IF turn[t].iteration = 0
                    THEN /\ turn'[t].history =
                              Append(BeforeDirective(t), RetryMsg(turn'[t].res))
                         /\ ~turn'[t].summary_requested
                    ELSE /\ turn'[t].history =
                              BeforeDirective(t) \o
                                 <<AssistantMsg(turn'[t].cur),
                                   ResultMsg(turn'[t].res), SummaryMsg>>
                         /\ turn'[t].summary_requested]_vars

RetryAtMostOnceWitness ==
    \E t \in Threads :
       /\ turn[t].variant = "stream"
       /\ Cardinality(Retries(t)) = 1
       /\ FailedInvocation(turn[t].res)
       /\ turn[t].summary_requested
       /\ turn[t].history[Len(turn[t].history)] = SummaryMsg

(***************************************************************************)
(* Properties of the bindings while a descriptor is loaded.                *)
(***************************************************************************)
\* the step replaces binding b of funcs by another binding of its name
Overwritten(b) ==
    /\ b \in funcs
    /\ b \notin funcs'
    /\ \E b2 \in funcs' : b2.name = b.name

\* C30: whenever loading replaces a binding by another binding of the same
\* qualified name, a warning about that name is printed: no binding is
\* overwritten silently.
NoSilentOverwrite ==
    [][\A b \in funcs : Overwritten(b) => b.name \in warned']_vars

(***************************************************************************)
(* Properties of call_tool over several calls.                             *)
(***************************************************************************)
\* call_tool of caller c returns a result that is the provider's response
\* to the n-th request on its stdin
CallReturnsResponse(c, n) ==
    /\ mpc[c] = "poll" /\ op[c] = "call_tool"
    /\ mpc'[c] = "idle" /\ call_ret'[c] = "result"
    /\ Head(output_queues[ser[c]]) = Response(n)

\* C31: a result call_tool returns is the provider's response to the
\* request that very call wrote (the last one on the provider's stdin, the
\* calls of a thread being made one after the other), never its late
\* response to an earlier call.
ResultAnswersOwnCall ==
    [][\A c \in CallWorkers : \A n \in 1..(2 * MaxCalls) :
          CallReturnsResponse(c, n) => n = Len(stdin[ser[c]])]_vars

(***************************************************************************)
(* Properties of the handling of a turn's returned text.                   *)
(***************************************************************************)
\* the UI thread hands the first directive of the text the turn of thread
\* t returned to its tool
HandlerDispatch(t) ==
    /\ turn[t].pc = "done"
    /\ turn'[t].pc = "post_tool"

\* C32: a directive the loop has handed to its tool during the turn is not
\* handed to a tool again when the UI handles the text the turn returned.
NoSecondDispatch ==
    [][\A t \in Threads :
          HandlerDispatch(t) =>
             FirstDirective(turn[t].full_response) \notin turn[t].dispatched]_vars

(***************************************************************************)
(* Properties of the stop flag at the end of a turn.                       *)
(***************************************************************************)
\* the turn of thread t returns to its caller
TurnReturns(t) ==
    /\ turn[t].pc \notin {"idle", "done", "handled", "post_tool", "crashed"}
    /\ turn'[t].pc = "done"

\* C33: whenever a turn returns, whatever its result, the stop flag is
\* clear.
StopClearAtReturn ==
    [][\A t \in Threads : TurnReturns(t) => ~stop_flag']_vars

(***************************************************************************)
(* Properties of a stop requested in the UI during a turn.                 *)
(***************************************************************************)
\* _stop_processing has run to its end while the turn of thread t was
\* running: the window is idle again and the worker is still in its loop
StoppedWhileRunning(t) ==
    /\ turn[t].pc \in {"top", "chunks", "await", "exec", "in_tool"}
    /\ current_state = "IDLE" /\ ui_pc = "idle"

\* the loop of thread t makes its check of the stop flag at the top of an
\* iteration
StopCheck(t) ==
    /\ turn[t].pc = "top" /\ turn[t].iteration < max_iterations
    /\ turn'[t] # turn[t]

\* C34: a stop requested in the UI during a running turn is seen by the
\* loop at its next check of the flag, which returns the interruption
\* result; _reset_state does not take the request away before that check.
StopSeenAtNextCheck ==
    [][\A t \in Threads :
          StoppedWhileRunning(t) /\ StopCheck(t) =>
             turn'[t].pc = "done" /\ turn'[t].result = "stopped"]_vars

(***************************************************************************)
(* Properties of the final-summary request of the streaming loop.          *)
(***************************************************************************)
\* exec_func calls the tool of a directive of the turn of thread t
ToolInvoked(t) == turn'[t].dispatched # turn[t].dispatched

\* C35: in the streaming loop no tool is invoked in a turn once the
\* final-summary request has been appended to the turn's history.
NoToolAfterSummary ==
    [][\A t \in Threads :
          turn[t].variant = "stream" /\ turn[t].summary_requested
             => ~ToolInvoked(t)]_vars

(***************************************************************************)
(* Properties of the message that follows an invoked tool.                 *)
(***************************************************************************)
\* the last message of the history of thread t after the step
LastAppended(t) == turn'[t].history[Len(turn'[t].history)]

\* C36: in the loop of process_user_input_with_history the result of a
\* tool that is in the registry and was invoked is appended as an
\* execution result, whatever its text; the message that a tool is not
\* available is not appended for it.
InvokedToolGetsResult ==
    [][\A t \in Threads :
          ToolReturnedStep(t) /\ turn[t].variant = "hist" =>
             LastAppended(t) = ResultMsg(turn'[t].res)]_vars

\* C37: in the streaming loop a directive whose invocation succeeded keeps
\* its assistant entry and its result entry in the history, whatever the
\* text of the tool's output.
SucceededDirectiveKept ==
    [][\A t \in Threads :
          /\ ToolReturnedStep(t) /\ turn[t].variant = "stream"
          /\ Has_Execution_successful(turn'[t].res)
          => /\ Len(turn'[t].history) >= Len(turn[t].history) + 1
             /\ SubSeq(turn'[t].history, 1, Len(turn[t].history) + 1) =
                   Append(turn[t].history, ResultMsg(turn'[t].res))
             /\ turn[t].history[Len(turn[t].history)] = AssistantMsg(turn[t].cur)]_vars

(***************************************************************************)
(* SpecConfig: an AI instance made without tool files is reconfigured      *)
(* with lists of tool files, in a directory where each of the tool files   *)
(* and default tools may or may not exist.                                 *)
(***************************************************************************)
InitConfig ==
    /\ McpInit /\ LoadInitState("idle") /\ MergeIdle /\ LifeIdle /\ ParseIdle
    /\ turn = [t \in Threads |-> IdleTurn]
    /\ stop_flag = FALSE
    /\ execution_status = "idle"
    /\ conv_his = <<>>
    /\ ai_funcs = {}
    /\ max_iterations = MaxIter
    /\ max_execution_iterations = MaxExec
    /\ current_state = "IDLE" /\ ui_pc = "idle" /\ chat_records = 0
    /\ mcp_paths = <<>>
    /\ on_disk \in SUBSET ({"./a.py", "./b.py"} \cup
                             {DefaultTools[i] : i \in DOMAIN DefaultTools})

NextConfig ==
    \E new_paths \in PathLists(MaxConfPaths) :
       /\ update_config(new_paths)
       /\ UNCHANGED <<mcpVars, loadVars, mergeVars, lifeVars, parseVars, uiVars, on_disk,
                      turn, stop_flag, execution_status, max_iterations,
                      max_execution_iterations>>

SpecConfig == InitConfig /\ [][NextConfig]_vars

\* update_config has put a list with another set of paths into mcp_paths
PathsChanged == PathSet(mcp_paths') # PathSet(mcp_paths)

\* C38: after update_config changed the tool paths, the names exec_func
\* can invoke are exactly the tools of the files now configured (the
\* default tools load_mcp_tools appended included); a binding of a file
\* that is no longer configured is gone.
FuncsFollowPaths ==
    [][PathsChanged =>
          ai_funcs' = load_mult_mcp_mod(SelectSeq(mcp_paths', exists), {})]_vars

====
